---------------------------- MODULE Spec2Model ----------------------------
(***************************************************************************)
(* mcpr: one canonical list of MCP server records (the Config Store) that  *)
(* is projected into the native configuration files of client              *)
(* applications.  The module models                                        *)
(*   - the Config Store (config/config.go),                                *)
(*   - the client registry and the format adapters (clients/*.go),         *)
(*   - the sync orchestrator (cmd/client.go, cmd/list.go, cmd/remove.go).  *)
(*                                                                         *)
(* Go values.  A Go slice or map is a record [null, elems] / [null, kv]:   *)
(* Go tells a nil slice from an empty one, and encoding/json does too      *)
(* ("servers": null against "servers": []).  A file is a record whose      *)
(* field kind says what its bytes are; JSON text keeps the order of the    *)
(* top-level members and its layout, so that byte equality of two files    *)
(* is equality of the two records.                                         *)
(***************************************************************************)
EXTENDS Integers, Sequences, FiniteSets, TLC

VARIABLES
    cfg,     \* the in-memory *config.Config of the running invocation
    fs,      \* the filesystem: path -> file content
    ret,     \* what the last operation returned (and what it was called with)
    order,   \* history: the surviving server records, in order of successful add
    goos     \* runtime.GOOS of the build that runs

vars == <<cfg, fs, ret, order, goos>>

-----------------------------------------------------------------------------
(* Bounds of the model *)

MaxServers == 3
MaxSynced == 3
MaxTomlLen == 5
MaxMembers == 2
MaxRuns == 2

-----------------------------------------------------------------------------
(* Go slices and maps *)

NilSlice == [null |-> TRUE, elems |-> <<>>]

MkSlice(s) == [null |-> FALSE, elems |-> s]

\* len(s)
SliceLen(s) == Len(s.elems)

\* append(s, x): the result is never nil
SliceAppend(s, x) == [null |-> FALSE, elems |-> Append(s.elems, x)]

\* append(s[:i], s[i+1:]...), i counted from 1 here
SliceDelete(s, i) ==
    [null |-> s.null,
     elems |-> [j \in 1..(Len(s.elems) - 1) |->
                   IF j < i THEN s.elems[j] ELSE s.elems[j + 1]]]

NilMap == [null |-> TRUE, kv |-> <<>>]

MkMap(f) == [null |-> FALSE, kv |-> f]

\* len(m)
MapLen(m) == Cardinality(DOMAIN m.kv)

-----------------------------------------------------------------------------
(* config.MCPServer, config.SyncedClient, config.Config *)

MCPServer(name, type, command, args, env, url, headers) ==
    [Name |-> name, Type |-> type, Command |-> command, Args |-> args,
     Env |-> env, URL |-> url, Headers |-> headers]

SyncedClient(name, local, servers) ==
    [Name |-> name, Local |-> local, Servers |-> servers]

Config(servers, syncedClients, path) ==
    [Servers |-> servers, SyncedClients |-> syncedClients, path |-> path]

\* The names of the records of a server slice, in order
ServerNames(servers) == [i \in 1..Len(servers.elems) |-> servers.elems[i].Name]

\* The index of the first record named name, 0 if there is none
RECURSIVE FirstNamed(_, _, _)
FirstNamed(elems, name, i) ==
    IF i > Len(elems) THEN 0
    ELSE IF elems[i].Name = name THEN i
    ELSE FirstNamed(elems, name, i + 1)

\* The index of the first synced-client record with key (name, local), 0 if none
RECURSIVE FirstSynced(_, _, _, _)
FirstSynced(elems, name, local, i) ==
    IF i > Len(elems) THEN 0
    ELSE IF elems[i].Name = name /\ elems[i].Local = local THEN i
    ELSE FirstSynced(elems, name, local, i + 1)

\* A plausible slip: duplicates are recognised by the whole record, not by the name
AddServerByRecord(c, server) ==
    IF \E i \in 1..Len(c.Servers.elems) : c.Servers.elems[i] = server
    THEN [cfg |-> c, err |-> "AlreadyExists"]
    ELSE [cfg |-> [c EXCEPT !.Servers = SliceAppend(c.Servers, server)],
          err |-> "nil"]

\* func (c *Config) AddServer(server MCPServer) error
AddServer(c, server) ==
    IF FirstNamed(c.Servers.elems, server.Name, 1) # 0
    THEN [cfg |-> c, err |-> "AlreadyExists"]
    ELSE [cfg |-> [c EXCEPT !.Servers = SliceAppend(c.Servers, server)],
          err |-> "nil"]

\* A plausible slip: the last record is moved into the hole (swap-remove)
RemoveServerSwap(c, name) ==
    LET i == FirstNamed(c.Servers.elems, name, 1)
        n == Len(c.Servers.elems)
    IN  IF i = 0 THEN [cfg |-> c, err |-> "NotFound"]
        ELSE [cfg |-> [c EXCEPT !.Servers.elems =
                          [j \in 1..(n - 1) |->
                              IF j = i THEN c.Servers.elems[n]
                              ELSE c.Servers.elems[j]]],
              err |-> "nil"]

\* A plausible slip: the list is cut at the record, c.Servers[:i], instead of
\* being joined around it
RemoveServerTruncate(c, name) ==
    LET i == FirstNamed(c.Servers.elems, name, 1)
    IN  IF i = 0 THEN [cfg |-> c, err |-> "NotFound"]
        ELSE [cfg |-> [c EXCEPT !.Servers.elems = SubSeq(c.Servers.elems, 1, i - 1)],
              err |-> "nil"]

\* func (c *Config) RemoveServer(name string) error
RemoveServer(c, name) ==
    LET i == FirstNamed(c.Servers.elems, name, 1)
    IN  IF i = 0 THEN [cfg |-> c, err |-> "NotFound"]
        ELSE [cfg |-> [c EXCEPT !.Servers = SliceDelete(c.Servers, i)],
              err |-> "nil"]

\* func (c *Config) GetServer(name string) (*MCPServer, error)
GetServer(c, name) ==
    LET i == FirstNamed(c.Servers.elems, name, 1)
    IN  IF i = 0 THEN [server |-> <<>>, err |-> "NotFound"]
        ELSE [server |-> <<c.Servers.elems[i]>>, err |-> "nil"]

\* func (c *Config) ListServers() []MCPServer
ListServers(c) == c.Servers

\* A plausible slip: the record is looked up by the client's name alone
AddSyncedClientByName(c, clientName, local, servers) ==
    LET i == FirstNamed(c.SyncedClients.elems, clientName, 1)
    IN  IF i # 0
        THEN [c EXCEPT !.SyncedClients.elems[i].Servers = servers]
        ELSE [c EXCEPT !.SyncedClients =
                 SliceAppend(c.SyncedClients, SyncedClient(clientName, local, servers))]

\* func (c *Config) AddSyncedClient(clientName string, local bool, servers []string)
AddSyncedClient(c, clientName, local, servers) ==
    LET i == FirstSynced(c.SyncedClients.elems, clientName, local, 1)
    IN  IF i # 0
        THEN [c EXCEPT !.SyncedClients.elems[i].Servers = servers]
        ELSE [c EXCEPT !.SyncedClients =
                 SliceAppend(c.SyncedClients, SyncedClient(clientName, local, servers))]

\* A plausible slip: every record of the client is dropped, whatever its flag
RemoveSyncedClientAnyFlag(c, clientName, local) ==
    [c EXCEPT !.SyncedClients =
        [null |-> c.SyncedClients.null,
         elems |-> SelectSeq(c.SyncedClients.elems,
                             LAMBDA sc : sc.Name # clientName)]]

\* func (c *Config) RemoveSyncedClient(clientName string, local bool)
RemoveSyncedClient(c, clientName, local) ==
    LET i == FirstSynced(c.SyncedClients.elems, clientName, local, 1)
    IN  IF i = 0 THEN c
        ELSE [c EXCEPT !.SyncedClients = SliceDelete(c.SyncedClients, i)]

\* func (c *Config) GetSyncedClients() []SyncedClient
GetSyncedClients(c) == c.SyncedClients

\* func (c *Config) GetSyncedClient(clientName string, local bool) *SyncedClient
GetSyncedClient(c, clientName, local) ==
    LET i == FirstSynced(c.SyncedClients.elems, clientName, local, 1)
    IN  IF i = 0 THEN <<>> ELSE <<c.SyncedClients.elems[i]>>

-----------------------------------------------------------------------------
(* JSON.  A value is a tagged record; an object is a function from its keys, *)
(* an array a sequence.  A number carries its literal.                       *)

JStr(s) == [t |-> "str", s |-> s]

JNum(lit) == [t |-> "num", lit |-> lit]

JBool(b) == [t |-> "bool", b |-> b]

JNull == [t |-> "null"]

JArr(a) == [t |-> "arr", a |-> a]

JObj(m) == [t |-> "obj", m |-> m]

EmptyObj == JObj(<<>>)

\* A Go string whose bytes are not valid UTF-8 (the byte 0xff after "a"), and
\* what encoding/json writes for it: the invalid byte becomes U+FFFD
InvalidUTF8 == "a<ff>"

ToValidUTF8(s) == IF s = InvalidUTF8 THEN "a<U+FFFD>" ELSE s

\* json.Marshal of a Go string
EncodeString(s) == JStr(ToValidUTF8(s))

\* Every object key of the model, in the byte order sort.Strings and
\* encoding/json's map encoder use.
KeyOrder ==
    <<"$schema", "Authorization", "KEY_A", "KEY_Z", "api", "context_servers",
      "db", "fs", "id", "mcp", "mcpServers", "old", "servers", "theme">>

\* The keys of ks in increasing order
SortKeys(ks) == SelectSeq(KeyOrder, LAMBDA k : k \in ks)

\* strconv.ParseFloat(lit, 64) followed by the encoder's float formatting:
\* json.Unmarshal stores a JSON number in an `any` as a float64, and 2^53 + 1
\* is not a float64.
DecodeNumber(lit) ==
    IF lit = "9007199254740993" THEN "9007199254740992" ELSE lit

\* json.Unmarshal of a value into an `any`, written back by json.Marshal
RECURSIVE DecodeAny(_)
DecodeAny(v) ==
    CASE v.t = "num" -> JNum(DecodeNumber(v.lit))
      [] v.t = "arr" -> JArr([i \in 1..Len(v.a) |-> DecodeAny(v.a[i])])
      [] v.t = "obj" -> JObj([k \in DOMAIN v.m |-> DecodeAny(v.m[k])])
      [] OTHER -> v

(* Files.  Text that is JSON keeps the order (and the repetitions) of the    *)
(* members of its top-level object and whether it is laid out as             *)
(* json.MarshalIndent(v, "", "  ") lays it out.                              *)

Missing == [kind |-> "missing"]

\* Bytes that are no JSON document (an empty file is one)
Garbage == [kind |-> "garbage"]

\* A path os.ReadFile fails on with an error other than "does not exist"
\* (a directory, a file without read permission)
Unreadable == [kind |-> "unreadable"]

\* A JSON document whose top-level value is an object
JsonObject(layout, members) ==
    [kind |-> "json", layout |-> layout, top |-> "object", members |-> members]

\* A JSON document whose top-level value is v, not an object
JsonValue(layout, v) ==
    [kind |-> "json", layout |-> layout, top |-> v.t, members |-> <<>>]

Member(k, v) == [k |-> k, v |-> v]

\* The value the last member with key k gives it
RECURSIVE LastValue(_, _, _)
LastValue(members, k, i) ==
    IF members[i].k = k THEN members[i].v ELSE LastValue(members, k, i - 1)

MemberKeys(members) == {members[i].k : i \in 1..Len(members)}

\* json.Unmarshal(data, &settings) with settings a nil map[string]any:
\* a document that is `null` leaves the map nil and is no error.
UnmarshalMap(file) ==
    IF file.kind # "json" THEN [err |-> "ParseError", null |-> TRUE, m |-> <<>>]
    ELSE IF file.top = "null" THEN [err |-> "nil", null |-> TRUE, m |-> <<>>]
    ELSE IF file.top # "object" THEN [err |-> "ParseError", null |-> TRUE, m |-> <<>>]
    ELSE [err |-> "nil", null |-> FALSE,
          m |-> [k \in MemberKeys(file.members) |->
                    DecodeAny(LastValue(file.members, k, Len(file.members)))]]

\* json.MarshalIndent(settings, "", "  ") of a map: keys sorted
MarshalMap(m) ==
    LET ks == SortKeys(DOMAIN m)
    IN  JsonObject("indent2", [i \in 1..Len(ks) |-> Member(ks[i], m[ks[i]])])

-----------------------------------------------------------------------------
(* The central config document: Config.Save and LoadFromPath *)

GlobalConfigPath == "~/.config/mcpr/config.json"

\* A []string as JSON
EncodeStrings(s) ==
    IF s.null THEN JNull ELSE JArr([i \in 1..Len(s.elems) |-> EncodeString(s.elems[i])])

\* A map[string]string as JSON
EncodeStringMap(m) ==
    IF m.null THEN JNull ELSE JObj([k \in DOMAIN m.kv |-> EncodeString(m.kv[k])])

\* The fields of f that the `omitempty` tags keep
KeepFields(f, kept) == [k \in {x \in DOMAIN f : kept[x]} |-> f[k]]

\* json.Marshal of an MCPServer, by its struct tags
EncodeServer(s) ==
    LET f == [name |-> EncodeString(s.Name), type |-> EncodeString(s.Type),
              command |-> EncodeString(s.Command), args |-> EncodeStrings(s.Args),
              env |-> EncodeStringMap(s.Env), url |-> EncodeString(s.URL),
              headers |-> EncodeStringMap(s.Headers)]
        kept == [name |-> TRUE, type |-> TRUE,
                 command |-> s.Command # "", args |-> SliceLen(s.Args) > 0,
                 env |-> MapLen(s.Env) > 0, url |-> s.URL # "",
                 headers |-> MapLen(s.Headers) > 0]
    IN  JObj(KeepFields(f, kept))

\* json.Marshal of a SyncedClient, by its struct tags
EncodeSyncedClient(sc) ==
    LET f == [name |-> EncodeString(sc.Name), local |-> JBool(sc.Local),
              servers |-> EncodeStrings(sc.Servers)]
        kept == [name |-> TRUE, local |-> TRUE, servers |-> SliceLen(sc.Servers) > 0]
    IN  JObj(KeepFields(f, kept))

\* json.MarshalIndent(c, "", "  "): the fields in the order of the struct
MarshalConfig(c) ==
    LET servers ==
            IF c.Servers.null THEN JNull
            ELSE JArr([i \in 1..Len(c.Servers.elems) |-> EncodeServer(c.Servers.elems[i])])
        synced ==
            JArr([i \in 1..Len(c.SyncedClients.elems) |->
                     EncodeSyncedClient(c.SyncedClients.elems[i])])
    IN  JsonObject("indent2",
            <<Member("servers", servers)>> \o
            (IF SliceLen(c.SyncedClients) > 0
             THEN <<Member("synced_clients", synced)>> ELSE <<>>))

\* A string field of a decoded object, "" when the key is absent
DecodeString(m, k) == IF k \in DOMAIN m /\ m[k].t = "str" THEN m[k].s ELSE ""

\* A []string field: absent or null is nil
DecodeStrings(m, k) ==
    IF k \in DOMAIN m /\ m[k].t = "arr"
    THEN MkSlice([i \in 1..Len(m[k].a) |-> m[k].a[i].s])
    ELSE NilSlice

\* A map[string]string field: absent or null is nil
DecodeStringMap(m, k) ==
    IF k \in DOMAIN m /\ m[k].t = "obj"
    THEN MkMap([x \in DOMAIN m[k].m |-> m[k].m[x].s])
    ELSE NilMap

DecodeServer(v) ==
    MCPServer(DecodeString(v.m, "name"), DecodeString(v.m, "type"),
              DecodeString(v.m, "command"), DecodeStrings(v.m, "args"),
              DecodeStringMap(v.m, "env"), DecodeString(v.m, "url"),
              DecodeStringMap(v.m, "headers"))

DecodeSyncedClient(v) ==
    SyncedClient(DecodeString(v.m, "name"),
                 "local" \in DOMAIN v.m /\ v.m["local"].t = "bool" /\ v.m["local"].b,
                 DecodeStrings(v.m, "servers"))

\* json.Unmarshal(data, &cfg) with cfg a zero Config
UnmarshalConfig(file) ==
    LET zero == Config(NilSlice, NilSlice, "")
    IN  IF file.kind # "json" THEN [err |-> "ParseError", cfg |-> zero]
        ELSE IF file.top = "null" THEN [err |-> "nil", cfg |-> zero]
        ELSE IF file.top # "object" THEN [err |-> "ParseError", cfg |-> zero]
        ELSE LET keys == MemberKeys(file.members)
                 val(k) == LastValue(file.members, k, Len(file.members))
                 list(k, Dec(_)) ==
                     IF k \in keys /\ val(k).t = "arr"
                     THEN MkSlice([i \in 1..Len(val(k).a) |-> Dec(val(k).a[i])])
                     ELSE NilSlice
                 \* a value that is neither an array nor null cannot be
                 \* stored in a slice field: *json.UnmarshalTypeError
                 mismatch(k) == k \in keys /\ val(k).t \notin {"arr", "null"}
             IN  IF mismatch("servers") \/ mismatch("synced_clients")
                 THEN [err |-> "ParseError", cfg |-> zero]
                 ELSE [err |-> "nil",
                       cfg |-> Config(list("servers", DecodeServer),
                                      list("synced_clients", DecodeSyncedClient), "")]

\* A plausible slip: the empty Config of a missing file is bound to the global
\* path, as Load binds it, not to the path asked for
LoadFromPathGlobal(files, path) ==
    IF files[path].kind = "missing"
    THEN [err |-> "nil", cfg |-> Config(MkSlice(<<>>), NilSlice, GlobalConfigPath)]
    ELSE IF files[path].kind = "unreadable"
    THEN [err |-> "IOError", cfg |-> Config(NilSlice, NilSlice, "")]
    ELSE LET u == UnmarshalConfig(files[path])
         IN  IF u.err # "nil" THEN u
             ELSE [err |-> "nil", cfg |-> [u.cfg EXCEPT !.path = path]]

\* func LoadFromPath(path string) (*Config, error)
LoadFromPath(files, path) ==
    IF files[path].kind = "missing"
    THEN [err |-> "nil", cfg |-> Config(MkSlice(<<>>), NilSlice, path)]
    ELSE IF files[path].kind = "unreadable"
    THEN [err |-> "IOError", cfg |-> Config(NilSlice, NilSlice, "")]
    ELSE LET u == UnmarshalConfig(files[path])
         IN  IF u.err # "nil" THEN u
             ELSE [err |-> "nil", cfg |-> [u.cfg EXCEPT !.path = path]]

\* A plausible slip: the struct tags carry no omitempty, so an empty list is
\* written as [] and a nil one as null
SaveKeepEmpty(c, files) ==
    LET p == IF c.path = "" THEN GlobalConfigPath ELSE c.path
        srv(s) == JObj([name |-> EncodeString(s.Name), type |-> EncodeString(s.Type),
                        command |-> EncodeString(s.Command), args |-> EncodeStrings(s.Args),
                        env |-> EncodeStringMap(s.Env), url |-> EncodeString(s.URL),
                        headers |-> EncodeStringMap(s.Headers)])
        syn(sc) == JObj([name |-> EncodeString(sc.Name), local |-> JBool(sc.Local),
                         servers |-> EncodeStrings(sc.Servers)])
        list(s, Enc(_)) ==
            IF s.null THEN JNull ELSE JArr([i \in 1..Len(s.elems) |-> Enc(s.elems[i])])
    IN  [err |-> "nil", cfg |-> [c EXCEPT !.path = p],
         fs |-> [files EXCEPT ![p] =
                    JsonObject("indent2",
                        <<Member("servers", list(c.Servers, srv)),
                          Member("synced_clients", list(c.SyncedClients, syn))>>)]]

\* func (c *Config) Save() error
Save(c, files) ==
    LET p == IF c.path = "" THEN GlobalConfigPath ELSE c.path
    IN  [err |-> "nil", cfg |-> [c EXCEPT !.path = p],
         fs |-> [files EXCEPT ![p] = MarshalConfig(c)]]

-----------------------------------------------------------------------------
(* The client registry (the init functions of package clients) *)

Client(name, displayName, supportsLocal, syncFunc, osPaths) ==
    [Name |-> name, DisplayName |-> displayName, SupportsLocal |-> supportsLocal,
     SyncFunc |-> syncFunc, osPaths |-> osPaths]

\* clientRegistry after every init has run; osPaths says that the global
\* path resolver switches on runtime.GOOS
clientRegistry ==
    [n \in {"claude-desktop", "claude-code", "cursor", "windsurf", "zed", "opencode",
            "cline", "vscode", "continue", "codex", "gemini", "kilo-code", "zencoder"} |->
        CASE n = "claude-desktop" ->
                Client(n, "Claude Desktop", FALSE, "syncToMCPConfig", TRUE)
          [] n = "claude-code" ->
                Client(n, "Claude Code", TRUE, "syncToClaudeCode", FALSE)
          [] n = "cursor" -> Client(n, "Cursor", TRUE, "syncToMCPConfig", FALSE)
          [] n = "windsurf" -> Client(n, "Windsurf", TRUE, "syncToMCPConfig", TRUE)
          [] n = "zed" -> Client(n, "Zed", FALSE, "syncToZed", FALSE)
          [] n = "opencode" -> Client(n, "OpenCode", TRUE, "syncToOpenCode", FALSE)
          [] n = "cline" -> Client(n, "Cline", FALSE, "syncToMCPConfig", TRUE)
          [] n = "vscode" -> Client(n, "VS Code (Copilot)", TRUE, "syncToVSCodeMCP", TRUE)
          [] n = "continue" -> Client(n, "Continue", FALSE, "syncToContinue", FALSE)
          [] n = "codex" -> Client(n, "Codex (OpenAI)", FALSE, "syncToCodex", FALSE)
          [] n = "gemini" ->
                Client(n, "Gemini CLI", TRUE, "syncToSettingsWithMcpServers", FALSE)
          [] n = "kilo-code" -> Client(n, "Kilo Code", TRUE, "syncToMCPConfig", TRUE)
          [] n = "zencoder" -> Client(n, "ZenCoder", FALSE, "syncToMCPConfig", TRUE)]

\* func GetClient(name string) (*Client, error)
GetClient(name) ==
    IF name \in DOMAIN clientRegistry
    THEN [client |-> <<clientRegistry[name]>>, err |-> "nil"]
    ELSE [client |-> <<>>, err |-> "NotFound"]

\* c.GlobalPath(): the home directory is known; the resolvers that switch on
\* runtime.GOOS know darwin, windows and linux only.  The path is named after
\* the client: no two resolvers give the same file.
GlobalPath(c, os) ==
    IF c.osPaths /\ os \notin {"darwin", "windows", "linux"}
    THEN [path |-> "", err |-> "IOError"]
    ELSE [path |-> "~/" \o c.Name, err |-> "nil"]

\* c.LocalPath(): a file under the working directory
LocalPath(c) == [path |-> "./" \o c.Name, err |-> "nil"]

\* Every file of the model: the central config document and the clients' files
Paths ==
    {GlobalConfigPath} \cup {"~/" \o n : n \in DOMAIN clientRegistry}
        \cup {"./" \o n : n \in {x \in DOMAIN clientRegistry : clientRegistry[x].SupportsLocal}}

-----------------------------------------------------------------------------
(* The JSON format adapters *)

\* The members of f whose flag in kept is TRUE, as a JSON object
Fields(f, kept) == JObj([k \in {x \in DOMAIN f : kept[x]} |-> f[k]])

\* MCPServerEntry of syncToMCPConfig, marshalled by its omitempty tags
MCPServerEntry(server) ==
    IF server.Type = "http"
    THEN Fields([url |-> EncodeString(server.URL), headers |-> EncodeStringMap(server.Headers)],
                [url |-> server.URL # "", headers |-> MapLen(server.Headers) > 0])
    ELSE Fields([command |-> EncodeString(server.Command), args |-> EncodeStrings(server.Args),
                 env |-> EncodeStringMap(server.Env)],
                [command |-> server.Command # "", args |-> SliceLen(server.Args) > 0,
                 env |-> MapLen(server.Env) > 0])

\* The entry syncToSettingsWithKey and syncToVSCodeMCP build
SettingsEntry(server) ==
    IF server.Type = "http"
    THEN Fields([url |-> EncodeString(server.URL), headers |-> EncodeStringMap(server.Headers)],
                [url |-> TRUE, headers |-> MapLen(server.Headers) > 0])
    ELSE Fields([command |-> EncodeString(server.Command), args |-> EncodeStrings(server.Args),
                 env |-> EncodeStringMap(server.Env)],
                [command |-> TRUE, args |-> SliceLen(server.Args) > 0,
                 env |-> MapLen(server.Env) > 0])

\* The entry syncToClaudeCode builds
ClaudeCodeEntry(server) ==
    IF server.Type = "http"
    THEN Fields([type |-> JStr("http"), url |-> EncodeString(server.URL),
                 headers |-> EncodeStringMap(server.Headers)],
                [type |-> TRUE, url |-> TRUE, headers |-> MapLen(server.Headers) > 0])
    ELSE Fields([type |-> JStr("stdio"), command |-> EncodeString(server.Command),
                 args |-> EncodeStrings(server.Args), env |-> EncodeStringMap(server.Env)],
                [type |-> TRUE, command |-> TRUE, args |-> SliceLen(server.Args) > 0,
                 env |-> MapLen(server.Env) > 0])

\* The entry syncToOpenCode builds: command is command + args
OpenCodeEntry(server) ==
    IF server.Type = "http"
    THEN Fields([type |-> JStr("remote"), url |-> EncodeString(server.URL),
                 headers |-> EncodeStringMap(server.Headers)],
                [type |-> TRUE, url |-> TRUE, headers |-> MapLen(server.Headers) > 0])
    ELSE Fields([type |-> JStr("local"),
                 command |-> JArr(<<EncodeString(server.Command)>> \o
                                  [i \in 1..Len(server.Args.elems) |->
                                      EncodeString(server.Args.elems[i])]),
                 environment |-> EncodeStringMap(server.Env)],
                [type |-> TRUE, command |-> TRUE, environment |-> MapLen(server.Env) > 0])

\* The entry syncToZed builds
ZedEntry(server) ==
    IF server.Type = "http"
    THEN Fields([url |-> EncodeString(server.URL), settings |-> EmptyObj,
                 headers |-> EncodeStringMap(server.Headers)],
                [url |-> TRUE, settings |-> TRUE, headers |-> MapLen(server.Headers) > 0])
    ELSE JObj([command |->
                  Fields([path |-> EncodeString(server.Command), args |-> EncodeStrings(server.Args),
                          env |-> EncodeStringMap(server.Env)],
                         [path |-> TRUE, args |-> SliceLen(server.Args) > 0,
                          env |-> MapLen(server.Env) > 0]),
               settings |-> EmptyObj])

\* The element syncToContinue appends for a server
ContinueEntry(server) ==
    JObj([name |-> EncodeString(server.Name),
          transport |->
            IF server.Type = "http"
            THEN Fields([type |-> JStr("sse"), url |-> EncodeString(server.URL),
                         headers |-> EncodeStringMap(server.Headers)],
                        [type |-> TRUE, url |-> TRUE,
                         headers |-> MapLen(server.Headers) > 0])
            ELSE Fields([type |-> JStr("stdio"), command |-> EncodeString(server.Command),
                         args |-> EncodeStrings(server.Args),
                         env |-> EncodeStringMap(server.Env)],
                        [type |-> TRUE, command |-> TRUE,
                         args |-> SliceLen(server.Args) > 0,
                         env |-> MapLen(server.Env) > 0])])

\* for _, server := range servers { m[server.Name] = entry }: a later server
\* of the same name overwrites an earlier one
RECURSIVE LastNamed(_, _, _)
LastNamed(servers, name, i) ==
    IF servers[i].Name = name THEN servers[i] ELSE LastNamed(servers, name, i - 1)

\* the entry each adapter builds for one server, by the adapter's name
EntryOf(adapter, server) ==
    CASE adapter = "syncToMCPConfig" -> MCPServerEntry(server)
      [] adapter = "syncToSettingsWithKey" -> SettingsEntry(server)
      [] adapter = "syncToClaudeCode" -> ClaudeCodeEntry(server)
      [] adapter = "syncToOpenCode" -> OpenCodeEntry(server)
      [] adapter = "syncToZed" -> ZedEntry(server)

ServerMap(servers, adapter) ==
    JObj([n \in {servers[i].Name : i \in 1..Len(servers)} |->
             EntryOf(adapter, LastNamed(servers, n, Len(servers)))])

\* The result of an adapter: the error it returns and the filesystem it leaves.
\* "panic" is a run-time panic of the Go program, which ends the process.
Wrote(files, path, content) == [err |-> "nil", fs |-> [files EXCEPT ![path] = content]]

Failed(files, err) == [err |-> err, fs |-> files]

\* saveSettingsFile(path, settings): os.MkdirAll, json.MarshalIndent, os.WriteFile
saveSettingsFile(files, path, settings) == Wrote(files, path, MarshalMap(settings))

\* saveMCPConfig(path, cfg): the struct MCPClientConfig has the one field mcpServers
saveMCPConfig(files, path, mcpServers) ==
    Wrote(files, path, JsonObject("indent2", <<Member("mcpServers", mcpServers)>>))

\* A slip: the existing document is read before it is replaced, and a file
\* that does not parse ends the sync
syncToMCPConfigReadFirst(servers, path, files) ==
    IF files[path].kind # "missing" /\ UnmarshalMap(files[path]).err # "nil"
    THEN Failed(files, UnmarshalMap(files[path]).err)
    ELSE saveMCPConfig(files, path, ServerMap(servers, "syncToMCPConfig"))

\* func syncToMCPConfig(servers []config.MCPServer, path string) error
syncToMCPConfig(servers, path, files) ==
    saveMCPConfig(files, path, ServerMap(servers, "syncToMCPConfig"))

\* func syncToVSCodeMCP(servers []config.MCPServer, path string) error
syncToVSCodeMCP(servers, path, files) ==
    saveSettingsFile(files, path,
        [k \in {"servers"} |-> ServerMap(servers, "syncToSettingsWithKey")])

\* A read-merge-write that adds the entries to those the key already holds
\* instead of replacing the key's value: what the adapters must not do.
MergeKeyKeepOld(files, path, key, value) ==
    IF files[path].kind = "missing"
    THEN saveSettingsFile(files, path, [k \in {key} |-> value])
    ELSE LET u == UnmarshalMap(files[path])
             old == IF key \in DOMAIN u.m /\ u.m[key].t = "obj" /\ value.t = "obj"
                    THEN u.m[key].m ELSE <<>>
             both == IF value.t # "obj" THEN value
                     ELSE JObj([n \in DOMAIN old \cup DOMAIN value.m |->
                                 IF n \in DOMAIN value.m THEN value.m[n] ELSE old[n]])
         IN  IF u.err # "nil" THEN Failed(files, u.err)
             ELSE IF u.null THEN Failed(files, "panic")
             ELSE saveSettingsFile(files, path,
                      [k \in DOMAIN u.m \cup {key} |-> IF k = key THEN both ELSE u.m[k]])

\* The read-merge-write of syncToSettingsWithKey, syncToClaudeCode, syncToZed,
\* syncToOpenCode and syncToContinue: os.ReadFile, json.Unmarshal into a
\* map[string]any, settings[key] = value, saveSettingsFile.  Assigning to an
\* entry of a nil map panics.
MergeKey(files, path, key, value) ==
    IF files[path].kind = "missing"
    THEN saveSettingsFile(files, path, [k \in {key} |-> value])
    ELSE LET u == UnmarshalMap(files[path])
         IN  IF u.err # "nil" THEN Failed(files, u.err)
             ELSE IF u.null THEN Failed(files, "panic")
             ELSE saveSettingsFile(files, path,
                      [k \in DOMAIN u.m \cup {key} |-> IF k = key THEN value ELSE u.m[k]])

\* func syncToSettingsWithKey(servers []config.MCPServer, path string, key string) error
syncToSettingsWithKey(servers, path, key, files) ==
    MergeKey(files, path, key, ServerMap(servers, "syncToSettingsWithKey"))

\* func syncToSettingsWithMcpServers(servers []config.MCPServer, path string) error
syncToSettingsWithMcpServers(servers, path, files) ==
    syncToSettingsWithKey(servers, path, "mcpServers", files)

\* func syncToClaudeCode(servers []config.MCPServer, path string) error
syncToClaudeCode(servers, path, files) ==
    MergeKey(files, path, "mcpServers", ServerMap(servers, "syncToClaudeCode"))

\* func syncToOpenCode(servers []config.MCPServer, path string) error
syncToOpenCode(servers, path, files) ==
    MergeKey(files, path, "mcp", ServerMap(servers, "syncToOpenCode"))

\* func syncToZed(servers []config.MCPServer, path string) error
syncToZed(servers, path, files) ==
    MergeKey(files, path, "context_servers", ServerMap(servers, "syncToZed"))

\* func syncToContinue(servers []config.MCPServer, path string) error
syncToContinue(servers, path, files) ==
    MergeKey(files, path, "mcpServers",
             JArr([i \in 1..Len(servers) |-> ContinueEntry(servers[i])]))

-----------------------------------------------------------------------------
(* The Codex adapter: line-oriented rewriting of a TOML file.  The bytes of  *)
(* the file are a sequence of tokens, each a fixed string; "\n" is the only  *)
(* token that holds a newline, "[" the only one that starts with a bracket,  *)
(* and no token is a prefix of another, so two token sequences are the same  *)
(* bytes only when they are equal.                                            *)

NL == "\n"

TextFile(toks) == [kind |-> "text", toks |-> toks]

\* string(data) of os.ReadFile(path); a missing file reads as ""
ReadText(file) ==
    CASE file.kind = "missing" -> <<>>
      [] file.kind = "text" -> file.toks

\* The bytes of the prefix "[mcp_servers."
McpPrefix == <<"[", "mcp_servers.">>

\* func tomlSplitLines(s string) []string
RECURSIVE SplitFrom(_, _, _, _)
SplitFrom(s, i, start, lines) ==
    IF i > Len(s)
    THEN IF start <= Len(s) THEN Append(lines, SubSeq(s, start, Len(s))) ELSE lines
    ELSE IF s[i] = NL
         THEN SplitFrom(s, i + 1, i + 1, Append(lines, SubSeq(s, start, i - 1)))
         ELSE SplitFrom(s, i + 1, start, lines)

tomlSplitLines(s) == IF s = <<>> THEN <<>> ELSE SplitFrom(s, 1, 1, <<>>)

\* func tomlJoinLines(lines []string) string
RECURSIVE tomlJoinLines(_)
tomlJoinLines(lines) ==
    IF Len(lines) = 0 THEN <<>>
    ELSE IF Len(lines) = 1 THEN lines[1]
    ELSE tomlJoinLines(SubSeq(lines, 1, Len(lines) - 1)) \o <<NL>> \o lines[Len(lines)]

\* func tomlTrimWhitespace(s string) string
RECURSIVE tomlTrimWhitespace(_)
tomlTrimWhitespace(s) ==
    IF Len(s) > 0 /\ s[1] \in {" ", "\t"} THEN tomlTrimWhitespace(Tail(s))
    ELSE IF Len(s) > 0 /\ s[Len(s)] \in {" ", "\t"}
         THEN tomlTrimWhitespace(SubSeq(s, 1, Len(s) - 1))
    ELSE s

\* func tomlHasPrefix(s, prefix string) bool
tomlHasPrefix(s, prefix) ==
    Len(s) >= Len(prefix) /\ SubSeq(s, 1, Len(prefix)) = prefix

\* func tomlHasSuffix(s, suffix string) bool
tomlHasSuffix(s, suffix) ==
    Len(s) >= Len(suffix) /\ SubSeq(s, Len(s) - Len(suffix) + 1, Len(s)) = suffix

\* A plausible slip: only the header lines of the owned sections are dropped
FilterLinesHeaderOnly(lines, i, inMcpSection, filteredLines) ==
    SelectSeq(lines, LAMBDA l : ~tomlHasPrefix(tomlTrimWhitespace(l), McpPrefix))

\* The loop of syncToCodex that drops the [mcp_servers.*] sections
RECURSIVE FilterLines(_, _, _, _)
FilterLines(lines, i, inMcpSection, filteredLines) ==
    IF i > Len(lines) THEN filteredLines
    ELSE LET trimmed == tomlTrimWhitespace(lines[i])
         IN  IF tomlHasPrefix(trimmed, McpPrefix)
             THEN FilterLines(lines, i + 1, TRUE, filteredLines)
             ELSE LET in == inMcpSection /\ ~tomlHasPrefix(trimmed, <<"[">>)
                  IN  FilterLines(lines, i + 1, in,
                          IF in THEN filteredLines ELSE Append(filteredLines, lines[i]))

\* fmt.Sprintf("%q", s) of a string that needs no escape
Quote(s) == "\"" \o s \o "\""

\* The strings of ss joined by sep
RECURSIVE JoinStr(_, _)
JoinStr(ss, sep) ==
    IF Len(ss) = 0 THEN ""
    ELSE IF Len(ss) = 1 THEN ss[1]
    ELSE ss[1] \o sep \o JoinStr(Tail(ss), sep)

\* `"k" = "v"` for the keys of m in sort.Strings order, joined by ", "
InlineTable(m) ==
    LET ks == SortKeys(DOMAIN m.kv)
    IN  JoinStr([i \in 1..Len(ks) |-> Quote(ks[i]) \o " = " \o Quote(m.kv[ks[i]])], ", ")

\* The section syncToCodex generates for a server
CodexSection(server) ==
    LET header == <<"[", "mcp_servers.", server.Name, "]", NL>>
    IN  IF server.Type = "http"
        THEN header \o <<"url = " \o Quote(server.URL), NL>> \o
             (IF MapLen(server.Headers) > 0
              THEN <<"http_headers = { " \o InlineTable(server.Headers) \o " }", NL>>
              ELSE <<>>)
        ELSE header \o <<"command = " \o Quote(server.Command), NL>> \o
             (IF SliceLen(server.Args) > 0
              THEN <<"args = [" \o
                     JoinStr([i \in 1..Len(server.Args.elems) |->
                                 Quote(server.Args.elems[i])], ", ") \o "]", NL>>
              ELSE <<>>) \o
             (IF MapLen(server.Env) > 0
              THEN <<"env = { " \o InlineTable(server.Env) \o " }", NL>>
              ELSE <<>>)

\* for _, section := range mcpSections { result += section + "\n" }
RECURSIVE AppendSections(_, _, _)
AppendSections(result, servers, i) ==
    IF i > Len(servers) THEN result
    ELSE AppendSections(result \o CodexSection(servers[i]) \o <<NL>>, servers, i + 1)

\* func syncToCodex(servers []config.MCPServer, path string) error
syncToCodex(servers, path, files) ==
    LET existingContent == ReadText(files[path])
        filteredLines == FilterLines(tomlSplitLines(existingContent), 1, FALSE, <<>>)
        joined == tomlJoinLines(filteredLines)
        result ==
            IF Len(servers) > 0
            THEN AppendSections(
                     IF joined # <<>> /\ ~tomlHasSuffix(joined, <<NL, NL>>)
                     THEN IF tomlHasSuffix(joined, <<NL>>)
                          THEN joined \o <<NL>> ELSE joined \o <<NL, NL>>
                     ELSE joined,
                     servers, 1)
            ELSE joined
    IN  Wrote(files, path, TextFile(result))

\* c.SyncFunc(servers, path)
SyncFunc(c, servers, path, files) ==
    CASE c.SyncFunc = "syncToMCPConfig" -> syncToMCPConfig(servers, path, files)
      [] c.SyncFunc = "syncToVSCodeMCP" -> syncToVSCodeMCP(servers, path, files)
      [] c.SyncFunc = "syncToSettingsWithMcpServers" ->
            syncToSettingsWithMcpServers(servers, path, files)
      [] c.SyncFunc = "syncToClaudeCode" -> syncToClaudeCode(servers, path, files)
      [] c.SyncFunc = "syncToOpenCode" -> syncToOpenCode(servers, path, files)
      [] c.SyncFunc = "syncToZed" -> syncToZed(servers, path, files)
      [] c.SyncFunc = "syncToContinue" -> syncToContinue(servers, path, files)
      [] c.SyncFunc = "syncToCodex" -> syncToCodex(servers, path, files)

\* The end of Client.Sync: if err := c.SyncFunc(servers, path); err != nil
\* { return "", err }; return path, nil
SyncReturn(path, r) ==
    IF r.err # "nil" THEN [path |-> "", err |-> r.err, fs |-> r.fs]
    ELSE [path |-> path, err |-> "nil", fs |-> r.fs]

\* func (c *Client) Sync(servers []config.MCPServer, local bool) (string, error)
\* A plausible slip: a local sync of a client without local support falls
\* back to the client's global file
SyncGlobalFallback(c, servers, local, os, files) ==
    LET p == IF local /\ c.SupportsLocal THEN LocalPath(c) ELSE GlobalPath(c, os)
    IN  IF p.err # "nil" THEN [path |-> "", err |-> p.err, fs |-> files]
        ELSE SyncReturn(p.path, SyncFunc(c, servers, p.path, files))

Sync(c, servers, local, os, files) ==
    IF local /\ ~c.SupportsLocal
    THEN [path |-> "", err |-> "UnsupportedOperation", fs |-> files]
    ELSE LET p == IF local THEN LocalPath(c) ELSE GlobalPath(c, os)
         IN  IF p.err # "nil" THEN [path |-> "", err |-> p.err, fs |-> files]
             ELSE SyncReturn(p.path, SyncFunc(c, servers, p.path, files))

-----------------------------------------------------------------------------
(* The inputs the specifications draw from *)

StdioFs ==
    MCPServer("fs", "stdio", "npx", MkSlice(<<"-y", "pkg">>), NilMap, "", NilMap)

\* What `mcpr add stdio npx` stores: args[1:] is empty, not nil
StdioFsBare == MCPServer("fs", "stdio", "npx", MkSlice(<<>>), NilMap, "", NilMap)

StdioDb ==
    MCPServer("db", "stdio", "dbsrv", NilSlice,
              MkMap([k \in {"KEY_A", "KEY_Z"} |-> IF k = "KEY_A" THEN "a" ELSE "z"]),
              "", NilMap)

HttpApi ==
    MCPServer("api", "http", "", NilSlice, NilMap, "https://x/mcp",
              MkMap([k \in {"Authorization"} |-> "Bearer t"]))

HttpApiBare == MCPServer("api", "http", "", NilSlice, NilMap, "https://x/mcp", NilMap)

ServerInputs == {StdioFs, StdioFsBare, StdioDb, HttpApi, HttpApiBare}

NameInputs == {"fs", "db", "api"}

\* The sequences over S of length at most n
SeqsUpTo(S, n) == UNION {[1..k -> S] : k \in 0..n}

AllMissing == [p \in Paths |-> Missing]

-----------------------------------------------------------------------------
(* SpecStore: the Config Store in memory, from the empty store *)

\* The client names the store is asked to record
SyncedNames == {"cursor", "gemini"}

\* The (client, local, servers) triples the store is asked to record
SyncedInputs ==
    ({"cursor"} \X BOOLEAN \X {NilSlice, MkSlice(<<"fs">>)})
       \cup {<<"gemini", FALSE, NilSlice>>}

StoreInit ==
    /\ cfg = LoadFromPath(AllMissing, GlobalConfigPath).cfg
    /\ fs = AllMissing
    /\ ret = [op |-> "start"]
    /\ order = <<>>
    /\ goos = "linux"

DoAddServer(server) ==
    LET r == AddServer(cfg, server)
    IN  /\ SliceLen(cfg.Servers) < MaxServers \/ r.err # "nil"
        /\ cfg' = r.cfg
        /\ ret' = [op |-> "AddServer", server |-> server, err |-> r.err]
        /\ order' = IF r.err = "nil" THEN Append(order, server) ELSE order
        /\ UNCHANGED <<fs, goos>>

DoRemoveServer(name) ==
    LET r == RemoveServer(cfg, name)
    IN  /\ cfg' = r.cfg
        /\ ret' = [op |-> "RemoveServer", name |-> name, err |-> r.err,
                   at |-> FirstNamed(cfg.Servers.elems, name, 1)]
        /\ order' = IF r.err = "nil"
                    THEN SelectSeq(order, LAMBDA x : x.Name # name) ELSE order
        /\ UNCHANGED <<fs, goos>>

DoAddSyncedClient(clientName, local, servers) ==
    LET c == AddSyncedClient(cfg, clientName, local, servers)
    IN  /\ SliceLen(c.SyncedClients) <= MaxSynced
        /\ cfg' = c
        /\ ret' = [op |-> "AddSyncedClient", name |-> clientName,
                   local |-> local, servers |-> servers, err |-> "nil",
                   at |-> FirstSynced(cfg.SyncedClients.elems, clientName, local, 1)]
        /\ UNCHANGED <<fs, order, goos>>

DoRemoveSyncedClient(clientName, local) ==
    /\ cfg' = RemoveSyncedClient(cfg, clientName, local)
    /\ ret' = [op |-> "RemoveSyncedClient", name |-> clientName,
               local |-> local, err |-> "nil",
               at |-> FirstSynced(cfg.SyncedClients.elems, clientName, local, 1)]
    /\ UNCHANGED <<fs, order, goos>>

StoreNext ==
    \/ \E server \in ServerInputs : DoAddServer(server)
    \/ \E name \in NameInputs : DoRemoveServer(name)
    \/ \E in \in SyncedInputs : DoAddSyncedClient(in[1], in[2], in[3])
    \/ \E clientName \in SyncedNames, local \in BOOLEAN :
          DoRemoveSyncedClient(clientName, local)

SpecStore == StoreInit /\ [][StoreNext]_vars

\* C1: AddServer with a record whose name is already in the store fails with
\* AlreadyExists and leaves the store as it was: the same server records in
\* the same order, the same synced-client records.
C1_DuplicateAddRejected ==
    [][(/\ ret'.op = "AddServer"
        /\ \E i \in 1..Len(cfg.Servers.elems) :
              cfg.Servers.elems[i].Name = ret'.server.Name)
       => (/\ ret'.err = "AlreadyExists"
           /\ cfg'.Servers = cfg.Servers
           /\ cfg'.SyncedClients = cfg.SyncedClients)]_vars

\* C1 witness: an add of a record that differs from the stored record of the
\* same name was rejected, in a store with two servers and a synced client.
C1_Witness ==
    /\ ret.op = "AddServer"
    /\ ret.err = "AlreadyExists"
    /\ SliceLen(cfg.Servers) >= 2
    /\ SliceLen(cfg.SyncedClients) >= 1
    /\ \A i \in 1..Len(cfg.Servers.elems) : cfg.Servers.elems[i] # ret.server

\* C2: from the empty store, after any sequence of AddServer and RemoveServer
\* calls, the names in the server list are pairwise distinct and the list holds
\* the surviving records in the order in which they were successfully added.
C2_UniqueInAddOrder ==
    /\ cfg.Servers.elems = order
    /\ \A i, j \in 1..Len(cfg.Servers.elems) :
          cfg.Servers.elems[i].Name = cfg.Servers.elems[j].Name => i = j

\* C2 witness: a record other than the last was removed from a list of three,
\* and two records survive.
C2_Witness ==
    /\ ret.op = "RemoveServer"
    /\ ret.err = "nil"
    /\ SliceLen(cfg.Servers) = 2
    /\ cfg.Servers.elems[1].Name = "db"
    /\ cfg.Servers.elems[2].Name = "api"

\* C11: RemoveServer of a name that is not in the store fails with NotFound
\* and leaves the store as it was; of a name that is in the store it succeeds
\* and the server list is the old list without the record of that name, one
\* record shorter, the other records in their old relative order, the
\* synced-client records untouched.
C11_RemoveExactlyNamed ==
    [][ret'.op = "RemoveServer"
       => IF \E i \in 1..Len(cfg.Servers.elems) :
                cfg.Servers.elems[i].Name = ret'.name
          THEN /\ ret'.err = "nil"
               /\ cfg'.Servers.elems =
                     SelectSeq(cfg.Servers.elems, LAMBDA x : x.Name # ret'.name)
               /\ Len(cfg'.Servers.elems) = Len(cfg.Servers.elems) - 1
               /\ cfg'.SyncedClients = cfg.SyncedClients
          ELSE /\ ret'.err = "NotFound"
               /\ cfg' = cfg]_vars

\* C11 witness: the middle record of a list of three was removed.
C11_Witness ==
    /\ ret.op = "RemoveServer"
    /\ ret.err = "nil"
    /\ ret.at = 2
    /\ SliceLen(cfg.Servers) = 2

\* The key (name, local) of a synced-client record
SyncedKey(sc) == <<sc.Name, sc.Local>>

\* C12: from the empty list, after any sequence of AddSyncedClient and
\* RemoveSyncedClient calls, no two records have the same (name, local) key;
\* AddSyncedClient on a key that is present replaces the server list of that
\* record and nothing else, every record staying at its position, and on a key
\* that is absent appends one record; a record of the same name with the other
\* local flag is a different record.
C12_SyncedUpsert ==
    /\ [](\A i, j \in 1..Len(cfg.SyncedClients.elems) :
             SyncedKey(cfg.SyncedClients.elems[i]) =
                SyncedKey(cfg.SyncedClients.elems[j]) => i = j)
    /\ [][ret'.op = "AddSyncedClient"
          => LET old == cfg.SyncedClients.elems
                 key == <<ret'.name, ret'.local>>
             IN  /\ cfg'.Servers = cfg.Servers
                 /\ IF \E i \in 1..Len(old) : SyncedKey(old[i]) = key
                    THEN /\ Len(cfg'.SyncedClients.elems) = Len(old)
                         /\ \A i \in 1..Len(old) :
                               cfg'.SyncedClients.elems[i] =
                                  IF SyncedKey(old[i]) = key
                                  THEN [old[i] EXCEPT !.Servers = ret'.servers]
                                  ELSE old[i]
                    ELSE cfg'.SyncedClients.elems =
                            Append(old, [Name |-> ret'.name, Local |-> ret'.local,
                                         Servers |-> ret'.servers])]_vars

\* C12 witness: the first of three records was given a new server list while
\* the record of the same client with the other flag, behind it, kept its own.
C12_Witness ==
    /\ ret.op = "AddSyncedClient"
    /\ ret.at = 1
    /\ SliceLen(cfg.SyncedClients) = 3
    /\ cfg.SyncedClients.elems[1].Servers = ret.servers
    /\ \E j \in 2..3 :
          /\ cfg.SyncedClients.elems[j].Name = ret.name
          /\ cfg.SyncedClients.elems[j].Local # ret.local
          /\ cfg.SyncedClients.elems[j].Servers # ret.servers

\* C13: RemoveSyncedClient returns no error; when no record has the key
\* (name, local), the same name with the other flag included, the store is
\* left as it was; when a record has the key, that record is removed, the
\* other records keep their order and the server list is untouched.
C13_RemoveSyncedExact ==
    [][ret'.op = "RemoveSyncedClient"
       => LET old == cfg.SyncedClients.elems
              key == <<ret'.name, ret'.local>>
          IN  /\ ret'.err = "nil"
              /\ cfg'.Servers = cfg.Servers
              /\ IF \E i \in 1..Len(old) : SyncedKey(old[i]) = key
                 THEN /\ cfg'.SyncedClients.elems =
                            SelectSeq(old, LAMBDA sc : SyncedKey(sc) # key)
                      /\ Len(cfg'.SyncedClients.elems) = Len(old) - 1
                 ELSE cfg' = cfg]_vars

\* C13 witness: a removal found no record with its key while the record of
\* the same client with the other flag was in the list, and stayed.
C13_Witness ==
    /\ ret.op = "RemoveSyncedClient"
    /\ ret.at = 0
    /\ \E j \in 1..Len(cfg.SyncedClients.elems) :
          /\ cfg.SyncedClients.elems[j].Name = ret.name
          /\ cfg.SyncedClients.elems[j].Local # ret.local

-----------------------------------------------------------------------------
(* SpecAdapter: a format adapter run on a destination file, and run again    *)

\* The top-level key an adapter designates for the servers
MCPKey(c) ==
    CASE c.SyncFunc = "syncToVSCodeMCP" -> "servers"
      [] c.SyncFunc = "syncToOpenCode" -> "mcp"
      [] c.SyncFunc = "syncToZed" -> "context_servers"
      [] OTHER -> "mcpServers"

\* The clients whose adapter merges one key into an existing settings file
MergeClients == {"claude-code", "gemini", "zed", "continue", "opencode"}

\* An entry no adapter generates, left in the file by an earlier hand or tool
StaleEntry == JObj([command |-> JStr("stale")])

\* The members an existing settings file is made of
MemberChoices(key) ==
    {Member("theme", JStr("dark")), Member("theme", JStr("light")),
     Member("id", JNum("9007199254740993")),
     Member(key, JObj([n \in {"old"} |-> StaleEntry])),
     Member(key, JObj([n \in {"fs"} |-> StaleEntry]))}

\* The contents the JSON file of a client can have before a sync
InitialJson(key) ==
    {Missing, Garbage, JsonValue("indent2", JNull), JsonValue("indent2", JArr(<<>>))}
        \cup {JsonObject(layout, ms) :
                 layout \in {"indent2", "compact"},
                 ms \in SeqsUpTo(MemberChoices(key), MaxMembers)}

TomlTokens == {NL, "[", "mcp_servers.", "x", " "}

\* The contents ~/.codex/config.toml can have before a sync
InitialToml == {Missing} \cup {TextFile(t) : t \in SeqsUpTo(TomlTokens, MaxTomlLen)}

InitialContents(c) ==
    IF c.SyncFunc = "syncToCodex" THEN InitialToml ELSE InitialJson(MCPKey(c))

\* The server lists an adapter is run with: runClientSync and resyncAll never
\* call Client.Sync with an empty list
ServerLists ==
    {<<StdioFs>>, <<StdioFs, HttpApi>>, <<HttpApi, StdioDb>>,
     <<StdioFsBare, HttpApiBare>>}

AdapterInit ==
    /\ cfg = LoadFromPath(AllMissing, GlobalConfigPath).cfg
    /\ order = <<>>
    /\ goos = "linux"
    /\ \E n \in DOMAIN clientRegistry, servers \in ServerLists :
          \E content \in InitialContents(clientRegistry[n]) :
             /\ fs = [AllMissing EXCEPT !["~/" \o n] = content]
             /\ ret = [op |-> "start", client |-> n, servers |-> servers,
                       path |-> "~/" \o n, runs |-> 0, before |-> content,
                       err |-> "nil"]

\* c.SyncFunc(servers, path), once more with the same servers
RunAdapter ==
    /\ ret.runs < MaxRuns
    /\ ret.err = "nil"
    /\ LET r == SyncFunc(clientRegistry[ret.client], ret.servers, ret.path, fs)
       IN  /\ fs' = r.fs
           /\ ret' = [ret EXCEPT !.op = "SyncFunc", !.runs = @ + 1,
                                 !.before = fs[ret.path], !.err = r.err]
    /\ UNCHANGED <<cfg, order, goos>>

AdapterNext == RunAdapter

SpecAdapter == AdapterInit /\ [][AdapterNext]_vars

\* The adapter has just returned without an error
Synced == ret.op = "SyncFunc" /\ ret.err = "nil"

\* The top-level keys of a file, none when it is no JSON object
FileKeys(file) ==
    IF file.kind = "json" /\ file.top = "object" THEN MemberKeys(file.members) ELSE {}

FileValue(file, k) == LastValue(file.members, k, Len(file.members))

\* Every top-level key of the file before the run, except key, is in the file
\* after it with the value it had
ForeignKeysKept(before, after, key) ==
    \A k \in FileKeys(before) \ {key} :
        k \in FileKeys(after) /\ FileValue(after, k) = FileValue(before, k)

\* The lines of a TOML text
TextLines(file) == tomlSplitLines(ReadText(file))

\* C3 (as claimed): every adapter is idempotent: a second run with the same
\* server list leaves the file byte-identical to what the first run left.
C3_AdaptersIdempotent ==
    (Synced /\ ret.runs >= 2) => fs[ret.path] = ret.before

\* C4 (as claimed): a key-merge adapter keeps every top-level key that is not
\* its designated key, with an unmodified value.
C4_MergeKeepsForeignKeys ==
    (Synced /\ ret.client \in MergeClients)
        => ForeignKeysKept(ret.before, fs[ret.path], MCPKey(clientRegistry[ret.client]))

\* C5 (as claimed): for every registered client a sync keeps every setting of
\* the existing file that is not part of the MCP server section: the other
\* top-level keys of a JSON file, the lines outside the [mcp_servers.*]
\* sections of the Codex file.
C5_EveryClientKeepsSettings ==
    Synced =>
        IF clientRegistry[ret.client].SyncFunc = "syncToCodex"
        THEN LET kept == FilterLines(TextLines(ret.before), 1, FALSE, <<>>)
                 after == TextLines(fs[ret.path])
             IN  \A i \in 1..Len(kept) :
                    kept[i] # <<>> => \E j \in 1..Len(after) : after[j] = kept[i]
        ELSE ForeignKeysKept(ret.before, fs[ret.path],
                             MCPKey(clientRegistry[ret.client]))

\* The names of the entries of the designated key or section of a file, in
\* the order the file lists them (the order of KeyOrder for an object)
EntryNames(c, file) ==
    IF c.SyncFunc = "syncToCodex"
    THEN LET hs == SelectSeq(TextLines(file),
                       LAMBDA l : tomlHasPrefix(tomlTrimWhitespace(l), McpPrefix))
         IN  [i \in 1..Len(hs) |-> SubSeq(hs[i], 3, Len(hs[i]))]
    ELSE LET v == FileValue(file, MCPKey(c))
         IN  IF c.SyncFunc = "syncToContinue"
             THEN [i \in 1..Len(v.a) |-> <<v.a[i].m["name"].s, "]">>]
             ELSE LET ks == SortKeys(DOMAIN v.m)
                  IN  [i \in 1..Len(ks) |-> <<ks[i], "]">>]

\* The entries of the designated key that are the stale entry
StaleLeft(c, file) ==
    IF c.SyncFunc \in {"syncToCodex", "syncToContinue"} THEN {}
    ELSE LET v == FileValue(file, MCPKey(c))
         IN  {k \in DOMAIN v.m : v.m[k] = StaleEntry}

\* C6: after a successful adapter run with server list S the designated key or
\* section holds exactly the servers of S: one entry for every server of S,
\* no entry of a name that is not in S, and no entry left from before.
C6_ExactlyTheInputServers ==
    Synced =>
        LET c == clientRegistry[ret.client]
            names == EntryNames(c, fs[ret.path])
            want == {<<ret.servers[i].Name, "]">> : i \in 1..Len(ret.servers)}
        IN  /\ MCPKey(c) \in FileKeys(fs[ret.path]) \/ c.SyncFunc = "syncToCodex"
            /\ {names[i] : i \in 1..Len(names)} = want
            /\ Len(names) = Len(ret.servers)
            /\ StaleLeft(c, fs[ret.path]) = {}

\* C6 witness: a merge adapter has replaced a designated key that held a stale
\* entry under the name of an input server, next to a foreign key, with two servers.
C6_Witness ==
    /\ Synced
    /\ ret.client = "zed"
    /\ ret.runs = 1
    /\ Len(ret.servers) = 2
    /\ FileKeys(ret.before) = {"theme", "context_servers"}
    /\ "fs" \in DOMAIN FileValue(ret.before, "context_servers").m
    /\ ret.servers[1].Name = "fs"

\* A line that opens a section, and one that opens a section mcpr owns
IsHeader(line) == tomlHasPrefix(tomlTrimWhitespace(line), <<"[">>)

IsOwnedHeader(line) == tomlHasPrefix(tomlTrimWhitespace(line), McpPrefix)

\* Line i is in an owned section: the last header at or before it is owned
InOwnedSection(lines, i) ==
    \E j \in 1..i : IsOwnedHeader(lines[j]) /\ \A k \in (j + 1)..i : ~IsHeader(lines[k])

\* The lines outside the owned sections, in their order
RECURSIVE OtherLines(_, _)
OtherLines(lines, n) ==
    IF n = 0 THEN <<>>
    ELSE IF InOwnedSection(lines, n) THEN OtherLines(lines, n - 1)
    ELSE Append(OtherLines(lines, n - 1), lines[n])

\* lines without the empty lines at its end
RECURSIVE StripBlank(_)
StripBlank(lines) ==
    IF Len(lines) > 0 /\ lines[Len(lines)] = <<>>
    THEN StripBlank(SubSeq(lines, 1, Len(lines) - 1)) ELSE lines

\* The lines of the sections generated for the servers of the run, each
\* section followed by an empty line
GeneratedLines == tomlSplitLines(AppendSections(<<>>, ret.servers, 1))

\* The lines of the file before the run that are outside the owned sections
KeptBefore == LET lines == TextLines(ret.before) IN OtherLines(lines, Len(lines))

\* Codex's adapter has just returned without an error
CodexSynced == Synced /\ clientRegistry[ret.client].SyncFunc = "syncToCodex"

C25_ExactlyOneBlankLine ==
    (CodexSynced /\ StripBlank(KeptBefore) # <<>>)
    => \E h \in 3..Len(TextLines(fs[ret.path])) :
          /\ IsOwnedHeader(TextLines(fs[ret.path])[h])
          /\ \A k \in 1..(h - 1) : ~IsOwnedHeader(TextLines(fs[ret.path])[k])
          /\ TextLines(fs[ret.path])[h - 1] = <<>>
          /\ TextLines(fs[ret.path])[h - 2] # <<>>

\* The clients whose adapter writes a whole document of its own
FullReplace(c) == c.SyncFunc \in {"syncToMCPConfig", "syncToVSCodeMCP"}

-----------------------------------------------------------------------------
(* The commands of package cmd.  A command is one run of the program: it     *)
(* loads the store from disk, acts, and saves.  "panic" as a command's error *)
(* is a run-time panic, which ends the process where it happens.             *)

\* config.Load(): the working directory and its ancestors hold no mcpr.json,
\* so GetConfigPath gives the global path; a missing file is the empty store
Load(files) == LoadFromPath(files, GlobalConfigPath)

\* A command line argument is held as the sequence of its characters where
\* the program takes it apart; Str is the string itself
RECURSIVE Str(_)
Str(chars) == IF chars = <<>> THEN "" ELSE Head(chars) \o Str(Tail(chars))

\* strings.HasPrefix(s, prefix)
stringsHasPrefix(s, prefix) ==
    Len(s) >= Len(prefix) /\ SubSeq(s, 1, Len(prefix)) = prefix

\* strings.Index(s, ch), counted from 1 here: 0 when ch is not in s
stringsIndex(s, ch) ==
    IF \E i \in 1..Len(s) : s[i] = ch
    THEN CHOOSE i \in 1..Len(s) : s[i] = ch /\ \A j \in 1..(i - 1) : s[j] # ch
    ELSE 0

\* filepath.Base(command): trailing separators are dropped, then everything
\* up to the last separator; "." for the empty path, "/" for separators only
Base(command) ==
    LET n == IF \E i \in 1..Len(command) : command[i] # "/"
             THEN CHOOSE i \in 1..Len(command) :
                     command[i] # "/" /\ \A j \in (i + 1)..Len(command) : command[j] = "/"
             ELSE 0
        k == IF \E i \in 1..n : command[i] = "/"
             THEN CHOOSE i \in 1..n : command[i] = "/" /\ \A j \in (i + 1)..n : command[j] # "/"
             ELSE 0
    IN  IF command = <<>> THEN <<".">>
        ELSE IF n = 0 THEN <<"/">>
        ELSE SubSeq(command, k + 1, n)

\* func extractHostFromURL(url string) string
extractHostFromURL(url) ==
    LET https == <<"h", "t", "t", "p", "s", ":", "/", "/">>
        http == <<"h", "t", "t", "p", ":", "/", "/">>
        s1 == IF stringsHasPrefix(url, https) THEN SubSeq(url, 9, Len(url))
              ELSE IF stringsHasPrefix(url, http) THEN SubSeq(url, 8, Len(url))
              ELSE url
        s2 == IF stringsIndex(s1, "/") # 0
              THEN SubSeq(s1, 1, stringsIndex(s1, "/") - 1) ELSE s1
    IN  IF stringsIndex(s2, ":") # 0
        THEN SubSeq(s2, 1, stringsIndex(s2, ":") - 1) ELSE s2

\* A plausible slip: the servers of the store that the list names, in the
\* order of the store
ResolveSubsetStoreOrder(c, sc, rec, i, acc) ==
    [acc EXCEPT !.servers =
        SelectSeq(c.Servers.elems,
                  LAMBDA s : \E k \in 1..Len(sc.Servers.elems) :
                                sc.Servers.elems[k] = s.Name)]

\* for _, name := range sc.Servers { server, err := cfg.GetServer(name) ... }
\* of resyncAll: a name that is not in the store records an error and the
\* `continue` goes on with the next NAME of the same record
RECURSIVE ResolveSubset(_, _, _, _, _)
ResolveSubset(c, sc, rec, i, acc) ==
    IF i > Len(sc.Servers.elems) THEN acc
    ELSE LET g == GetServer(c, sc.Servers.elems[i])
         IN  ResolveSubset(c, sc, rec, i + 1,
                 IF g.err # "nil"
                 THEN [acc EXCEPT !.errors =
                          Append(@, [rec |-> rec, client |-> sc.Name,
                                     err |-> "server not found"])]
                 ELSE [acc EXCEPT !.servers = Append(@, g.server[1])])

\* errors = append(errors, ...); continue: the record at position rec failed
RecordFailed(acc, sc, rec, errors, kind, files) ==
    [acc EXCEPT !.errors = @ \o errors \o
                               <<[rec |-> rec, client |-> sc.Name, err |-> kind]>>,
                !.fs = files, !.succeeded = Append(@, FALSE), !.attempted = rec]

\* configPath, err := client.Sync(serversToSync, sc.Local) has returned s, or
\* has panicked; errors are those the record's names have recorded
RecordSynced(acc, sc, rec, errors, s) ==
    IF s.err = "panic"
    THEN [acc EXCEPT !.errors = @ \o errors, !.attempted = rec, !.panic = TRUE]
    ELSE IF s.err # "nil" THEN RecordFailed(acc, sc, rec, errors, s.err, s.fs)
    ELSE [acc EXCEPT !.errors = @ \o errors, !.fs = s.fs,
                     !.succeeded = Append(@, TRUE), !.attempted = rec,
                     !.successCount = @ + 1]

\* A plausible slip: the loop lacks the test for an empty serversToSync
ResyncRecordSyncEmpty(c, sc, rec, os, acc) ==
    LET g == GetClient(sc.Name)
        r == IF SliceLen(sc.Servers) > 0
             THEN ResolveSubset(c, sc, rec, 1, [servers |-> <<>>, errors |-> <<>>])
             ELSE [servers |-> ListServers(c).elems, errors |-> <<>>]
    IN  IF g.err # "nil" THEN RecordFailed(acc, sc, rec, <<>>, g.err, acc.fs)
        ELSE RecordSynced(acc, sc, rec, r.errors,
                          Sync(g.client[1], r.servers, sc.Local, os, acc.fs))

\* One iteration of the loop of resyncAll, for the record sc at position rec
ResyncRecord(c, sc, rec, os, acc) ==
    LET g == GetClient(sc.Name)
        r == IF SliceLen(sc.Servers) > 0
             THEN ResolveSubset(c, sc, rec, 1, [servers |-> <<>>, errors |-> <<>>])
             ELSE [servers |-> ListServers(c).elems, errors |-> <<>>]
    IN  IF g.err # "nil" THEN RecordFailed(acc, sc, rec, <<>>, g.err, acc.fs)
        ELSE IF Len(r.servers) = 0
        THEN RecordFailed(acc, sc, rec, r.errors, "no servers to sync", acc.fs)
        ELSE RecordSynced(acc, sc, rec, r.errors,
                          Sync(g.client[1], r.servers, sc.Local, os, acc.fs))

RECURSIVE ResyncFrom(_, _, _, _)
ResyncFrom(c, os, rec, acc) ==
    IF rec > Len(GetSyncedClients(c).elems) \/ acc.panic THEN acc
    ELSE ResyncFrom(c, os, rec + 1,
                    ResyncRecord(c, GetSyncedClients(c).elems[rec], rec, os, acc))

\* The end of resyncAll: the counts are printed, and the error is returned
\* if len(errors) > 0
ResyncReturn(acc, total) ==
    [ran |-> TRUE,
     err |-> IF acc.panic THEN "panic"
             ELSE IF Len(acc.errors) > 0 THEN "some clients failed to sync"
             ELSE "nil",
     errors |-> acc.errors, successCount |-> acc.successCount,
     succeeded |-> acc.succeeded, attempted |-> acc.attempted,
     total |-> total, fs |-> acc.fs]

\* func resyncAll(cfg *config.Config) error
resyncAll(c, os, files) ==
    ResyncReturn(ResyncFrom(c, os, 1,
                     [fs |-> files, errors |-> <<>>, successCount |-> 0,
                      succeeded |-> <<>>, attempted |-> 0, panic |-> FALSE]),
                 SliceLen(GetSyncedClients(c)))

\* What a command that did not reach resyncAll reports of it
NoResync(files) == [ran |-> FALSE, fs |-> files]

\* What a command returns: its error, the Config it holds in memory when it
\* ends, the filesystem it leaves, and what resyncAll did if it was called
Returned(err, c, files, resync) ==
    [err |-> err, cfg |-> c, fs |-> files,
     resync |-> [k \in DOMAIN resync \ {"fs"} |-> resync[k]]]

\* resyncAll(cfg); return nil: the error of resyncAll is dropped
ResyncDropped(c, r) == Returned(IF r.err = "panic" THEN "panic" ELSE "nil", c, r.fs, r)

\* if err := cfg.Save(); err != nil { return ... }; resyncAll(cfg); return nil
SaveAndResync(w, os, files) ==
    IF w.err # "nil" THEN Returned(w.err, w.cfg, files, NoResync(files))
    ELSE ResyncDropped(w.cfg, resyncAll(w.cfg, os, w.fs))

\* The end of runAddStdio and runAddHttp: cfg.AddServer(server), cfg.Save(),
\* resyncAll(cfg)
AddAndResync(server, os, files) ==
    LET l == Load(files)
        a == AddServer(l.cfg, server)
    IN  IF l.err # "nil" THEN Returned(l.err, l.cfg, files, NoResync(files))
        ELSE IF a.err # "nil" THEN Returned(a.err, l.cfg, files, NoResync(files))
        ELSE SaveAndResync(Save(a.cfg, files), os, files)

\* func runAddStdio(cmd *cobra.Command, args []string) error, with the flags
\* --name and --env; serverArgs is args[1:], an empty slice when there are none
runAddStdio(stdioName, command, serverArgs, env, os, files) ==
    LET name == IF stdioName = "" THEN Str(Base(command)) ELSE stdioName
    IN  AddAndResync(MCPServer(name, "stdio", Str(command), MkSlice(serverArgs),
                               IF Cardinality(DOMAIN env) > 0 THEN MkMap(env) ELSE NilMap,
                               "", NilMap),
                     os, files)

\* func runAddHttp(cmd *cobra.Command, args []string) error, with the flags
\* --name and --header
runAddHttp(httpName, url, headers, os, files) ==
    LET name == IF httpName = "" THEN Str(extractHostFromURL(url)) ELSE httpName
    IN  AddAndResync(MCPServer(name, "http", "", NilSlice, NilMap, Str(url),
                               IF Cardinality(DOMAIN headers) > 0
                               THEN MkMap(headers) ELSE NilMap),
                     os, files)

\* func runRemove(cmd *cobra.Command, args []string) error
runRemove(name, os, files) ==
    LET l == Load(files)
        d == RemoveServer(l.cfg, name)
    IN  IF l.err # "nil" THEN Returned(l.err, l.cfg, files, NoResync(files))
        ELSE IF d.err # "nil" THEN Returned(d.err, l.cfg, files, NoResync(files))
        ELSE SaveAndResync(Save(d.cfg, files), os, files)

\* for _, name := range clientSyncServers { server, err := cfg.GetServer(name);
\* if err != nil { return err } ... } of runClientSync
RECURSIVE ResolveAll(_, _, _, _)
ResolveAll(c, names, i, servers) ==
    IF i > Len(names) THEN [err |-> "nil", servers |-> servers]
    ELSE LET g == GetServer(c, names[i])
         IN  IF g.err # "nil" THEN [err |-> g.err, servers |-> servers]
             ELSE ResolveAll(c, names, i + 1, Append(servers, g.server[1]))

\* The store has been saved as c, and then client.Sync has returned s
SavedSynced(c, s) == Returned(s.err, c, s.fs, NoResync(s.fs))

\* A plausible slip: the synced-client record is stored and saved before the
\* client's file is written
runClientSyncSaveFirst(clientName, clientSyncServers, clientSyncLocal, os, files) ==
    LET l == Load(files)
        g == GetClient(clientName)
        r == IF Len(clientSyncServers) > 0
             THEN ResolveAll(l.cfg, clientSyncServers, 1, <<>>)
             ELSE [err |-> "nil", servers |-> ListServers(l.cfg).elems]
        u == AddSyncedClient(l.cfg, clientName, clientSyncLocal,
                 IF Len(clientSyncServers) > 0 THEN MkSlice(clientSyncServers)
                 ELSE NilSlice)
    IN  IF l.err # "nil" THEN Returned(l.err, l.cfg, files, NoResync(files))
        ELSE IF g.err # "nil" THEN Returned(g.err, l.cfg, files, NoResync(files))
        ELSE IF r.err # "nil" THEN Returned(r.err, l.cfg, files, NoResync(files))
        ELSE IF Len(r.servers) = 0
        THEN Returned("no servers configured", l.cfg, files, NoResync(files))
        ELSE SavedSynced(Save(u, files).cfg,
                         Sync(g.client[1], r.servers, clientSyncLocal, os,
                              Save(u, files).fs))

\* cfg.Save() has returned w: the end of runClientSync and runClientRemove
SaveReturned(w) == Returned(w.err, w.cfg, w.fs, NoResync(w.fs))

\* The end of runClientSync: client.Sync has returned s; on an error the
\* command returns it, else the Config u with the record is saved
StoreSynced(c, u, s) ==
    IF s.err # "nil" THEN Returned(s.err, c, s.fs, NoResync(s.fs))
    ELSE SaveReturned(Save(u, s.fs))

\* func runClientSync(cmd *cobra.Command, args []string) error with a client
\* name, and the flags --servers and --local
runClientSync(clientName, clientSyncServers, clientSyncLocal, os, files) ==
    LET l == Load(files)
        g == GetClient(clientName)
        r == IF Len(clientSyncServers) > 0
             THEN ResolveAll(l.cfg, clientSyncServers, 1, <<>>)
             ELSE [err |-> "nil", servers |-> ListServers(l.cfg).elems]
        u == AddSyncedClient(l.cfg, clientName, clientSyncLocal,
                 IF Len(clientSyncServers) > 0 THEN MkSlice(clientSyncServers)
                 ELSE NilSlice)
    IN  IF l.err # "nil" THEN Returned(l.err, l.cfg, files, NoResync(files))
        ELSE IF g.err # "nil" THEN Returned(g.err, l.cfg, files, NoResync(files))
        ELSE IF r.err # "nil" THEN Returned(r.err, l.cfg, files, NoResync(files))
        ELSE IF Len(r.servers) = 0
        THEN Returned("no servers configured", l.cfg, files, NoResync(files))
        ELSE StoreSynced(l.cfg, u, Sync(g.client[1], r.servers, clientSyncLocal, os, files))

\* return resyncAll(cfg)
ResyncReturned(c, r) == Returned(r.err, c, r.fs, r)

\* A plausible slip: the store is saved when the batch is over
ResyncSaved(c, r) == Returned(r.err, c, Save(c, r.fs).fs, r)

runClientSyncAllSaved(os, files) ==
    LET l == Load(files)
    IN  IF l.err # "nil" THEN Returned(l.err, l.cfg, files, NoResync(files))
        ELSE ResyncSaved(l.cfg, resyncAll(l.cfg, os, files))

\* runClientSync without a client name
runClientSyncAll(os, files) ==
    LET l == Load(files)
    IN  IF l.err # "nil" THEN Returned(l.err, l.cfg, files, NoResync(files))
        ELSE ResyncReturned(l.cfg, resyncAll(l.cfg, os, files))

\* A plausible slip: the record is removed and the store saved without the
\* check that the record is in the sync list
runClientRemoveUnchecked(clientName, clientSyncLocal, files) ==
    LET g == GetClient(clientName)
        l == Load(files)
    IN  IF g.err # "nil" THEN Returned(g.err, l.cfg, files, NoResync(files))
        ELSE IF l.err # "nil" THEN Returned(l.err, l.cfg, files, NoResync(files))
        ELSE SaveReturned(Save(RemoveSyncedClient(l.cfg, clientName, clientSyncLocal),
                               files))

\* func runClientRemove(cmd *cobra.Command, args []string) error
runClientRemove(clientName, clientSyncLocal, files) ==
    LET g == GetClient(clientName)
        l == Load(files)
    IN  IF g.err # "nil" THEN Returned(g.err, l.cfg, files, NoResync(files))
        ELSE IF l.err # "nil" THEN Returned(l.err, l.cfg, files, NoResync(files))
        ELSE IF GetSyncedClient(l.cfg, clientName, clientSyncLocal) = <<>>
        THEN Returned("NotFound", l.cfg, files, NoResync(files))
        ELSE SaveReturned(Save(RemoveSyncedClient(l.cfg, clientName, clientSyncLocal),
                               files))

-----------------------------------------------------------------------------
(* Spec: the program as its user drives it, one command after the other,    *)
(* from a machine on which mcpr has never run.  cfg is the Config the last  *)
(* command held in memory when it ended, ret what it returned.              *)

\* The `mcpr client sync` command lines: client name, --local, --servers.
\* A full-replace client, a key-merge client with all servers and with an
\* explicit list, a client without local config whose global path depends on
\* the operating system, and a name that is no client
SyncInputs ==
    {<<"cursor", FALSE, <<>>>>, <<"gemini", FALSE, <<>>>>,
     <<"gemini", FALSE, <<"fs", "api">>>>, <<"claude-desktop", FALSE, <<>>>>,
     <<"claude-desktop", TRUE, <<>>>>, <<"nope", FALSE, <<>>>>}

\* The `mcpr client remove` command lines: client name, --local
RemoveInputs ==
    {<<"cursor", FALSE>>, <<"gemini", FALSE>>, <<"claude-desktop", FALSE>>,
     <<"claude-desktop", TRUE>>}

\* What the user can leave in a client's file between two commands
EditedContents == {JsonValue("compact", JNull), Garbage}

\* The files the user edits
EditedPaths == {"~/gemini"}

Init ==
    /\ cfg = Load(AllMissing).cfg
    /\ fs = AllMissing
    /\ ret = [op |-> "start", args |-> <<>>, err |-> "nil", resync |-> [ran |-> FALSE]]
    /\ order = <<>>
    /\ goos \in {"linux", "plan9"}

\* A command has run and returned r
Ran(op, args, r) ==
    /\ cfg' = r.cfg
    /\ fs' = r.fs
    /\ ret' = [op |-> op, args |-> args, err |-> r.err, resync |-> r.resync]
    /\ UNCHANGED <<order, goos>>

\* mcpr add stdio --name fs npx -y pkg
CmdAddStdio ==
    Ran("runAddStdio", <<"fs">>, runAddStdio("fs", <<"n", "p", "x">>, <<"-y", "pkg">>, <<>>, goos, fs))

\* mcpr add http https://api/mcp --header Authorization=...: the name is derived
CmdAddHttp ==
    Ran("runAddHttp", <<"api">>,
        runAddHttp("", <<"h", "t", "t", "p", "s", ":", "/", "/", "a", "p", "i", "/",
                         "m", "c", "p">>,
                   [k \in {"Authorization"} |-> "Bearer t"], goos, fs))

\* mcpr remove <name>
CmdRemove(name) == Ran("runRemove", <<name>>, runRemove(name, goos, fs))

\* mcpr client sync <client> [--servers a,b] [--local]
CmdClientSync(clientName, names, local) ==
    LET r == runClientSync(clientName, names, local, goos, fs)
    IN  /\ SliceLen(r.cfg.SyncedClients) <= MaxSynced
        /\ Ran("runClientSync", <<clientName, names, local>>, r)

\* mcpr client sync
CmdClientSyncAll == Ran("resyncAll", <<>>, runClientSyncAll(goos, fs))

\* mcpr client remove <client> [--local]
CmdClientRemove(clientName, local) ==
    Ran("runClientRemove", <<clientName, local>>, runClientRemove(clientName, local, fs))

\* The user, or the client itself, rewrites a client's file
UserEdit(path, content) ==
    /\ fs[path] # content
    /\ fs' = [fs EXCEPT ![path] = content]
    /\ ret' = [op |-> "UserEdit", args |-> <<path>>, err |-> "nil",
               resync |-> [ran |-> FALSE]]
    /\ UNCHANGED <<cfg, order, goos>>

Next ==
    \/ CmdAddStdio
    \/ CmdAddHttp
    \/ \E name \in {"fs", "api"} : CmdRemove(name)
    \/ \E in \in SyncInputs : CmdClientSync(in[1], in[3], in[2])
    \/ CmdClientSyncAll
    \/ \E in \in RemoveInputs : CmdClientRemove(in[1], in[2])
    \/ \E path \in EditedPaths, content \in EditedContents : UserEdit(path, content)

Spec == Init /\ [][Next]_vars

\* The file resyncAll writes for a synced-client record
RecordPath(sc) ==
    IF sc.Local THEN LocalPath(clientRegistry[sc.Name]).path
    ELSE GlobalPath(clientRegistry[sc.Name], goos).path

\* The names of the servers of the store a record stands for: those of its
\* explicit list that the store has, every server when the list is unset
RecordNames(c, sc) ==
    LET stored == {c.Servers.elems[i].Name : i \in 1..Len(c.Servers.elems)}
    IN  IF SliceLen(sc.Servers) > 0
        THEN {sc.Servers.elems[i] : i \in 1..Len(sc.Servers.elems)} \cap stored
        ELSE stored

\* The file of the record holds exactly the servers the record stands for
RecordUpdated(c, sc) ==
    LET names == EntryNames(clientRegistry[sc.Name], fs[RecordPath(sc)])
    IN  /\ fs[RecordPath(sc)].kind \in {"json", "text"}
        /\ {names[i][1] : i \in 1..Len(names)} = RecordNames(c, sc)

\* The last command ran the loop of resyncAll over the records of cfg
Resynced == ret.resync.ran /\ ret.resync.total > 0

\* C7 (as claimed): when resync-all runs over three records of which the
\* second has an explicit server list naming a server that is no longer in the
\* store, and nothing is wrong with records one and three, then the clients of
\* records one and three are updated and counted, record two is not counted
\* as succeeded, and exactly one failure is reported, for record two.
C7_BatchResilience ==
    LET r == ret.resync
        sc == cfg.SyncedClients.elems
    IN  (/\ Resynced
         /\ r.total = 3
         /\ r.err # "panic"
         /\ SliceLen(sc[2].Servers) > 0
         /\ \E i \in 1..Len(sc[2].Servers.elems) :
               GetServer(cfg, sc[2].Servers.elems[i]).err # "nil"
         /\ \A k \in 1..Len(r.errors) : r.errors[k].rec = 2)
        => (/\ r.succeeded = <<TRUE, FALSE, TRUE>>
            /\ r.successCount = 2
            /\ RecordUpdated(cfg, sc[1])
            /\ RecordUpdated(cfg, sc[3])
            /\ Len(r.errors) = 1)

\* C8 (as claimed): resync-all never aborts the batch: every record is
\* processed whatever happened to the records before it; it returns the
\* aggregate failure if and only if a per-record error was recorded; and the
\* file of every record that succeeded has been written.
C8_ResyncNeverAborts ==
    LET r == ret.resync
        sc == cfg.SyncedClients.elems
    IN  Resynced =>
            /\ r.attempted = r.total
            /\ r.err # "panic" => Len(r.succeeded) = r.total
            /\ r.err # "panic" =>
                  (r.err = "some clients failed to sync" <=> Len(r.errors) > 0)
            /\ \A i \in 1..Len(r.succeeded) :
                  r.succeeded[i] => RecordUpdated(cfg, sc[i])

\* C9: a single-client sync stores the record (clientName, local) with the
\* explicit server names, or unset when none were given, and saves the store
\* only when the adapter has written the client's file; when the sync fails
\* (client lookup, server resolution, no servers, path resolution, adapter)
\* the synced-client records are unchanged in memory and the store's file is
\* unchanged on disk.
C9_SyncRecordsOnlyOnSuccess ==
    [][ret'.op = "runClientSync" =>
          LET clientName == ret'.args[1]
              names == ret'.args[2]
              local == ret'.args[3]
              loaded == Load(fs).cfg
              record == SyncedClient(clientName, local,
                            IF Len(names) > 0 THEN MkSlice(names) ELSE NilSlice)
          IN  IF ret'.err = "nil"
              THEN /\ GetSyncedClient(cfg', clientName, local) = <<record>>
                   /\ cfg' = AddSyncedClient(loaded, clientName, local, record.Servers)
                   /\ Load(fs').cfg = cfg'
                   /\ fs'[RecordPath(record)].kind = "json"
                   /\ LET written == EntryNames(clientRegistry[clientName],
                                                fs'[RecordPath(record)])
                      IN  {written[i][1] : i \in 1..Len(written)}
                              = RecordNames(loaded, record)
              ELSE /\ cfg'.SyncedClients = loaded.SyncedClients
                   /\ fs'[GlobalConfigPath] = fs[GlobalConfigPath]]_vars

\* C9 witness: a sync of gemini with an explicit list failed in the adapter
\* (the client's file is no JSON) while the store held a gemini record with
\* an unset list, which the sync would have replaced.
C9_Witness ==
    /\ ret.op = "runClientSync"
    /\ ret.args = <<"gemini", <<"fs", "api">>, FALSE>>
    /\ ret.err = "ParseError"
    /\ GetSyncedClient(cfg, "gemini", FALSE) = <<SyncedClient("gemini", FALSE, NilSlice)>>
    /\ Len(cfg.SyncedClients.elems) = 2
    /\ Load(fs).cfg.SyncedClients = cfg.SyncedClients

\* C14: mcpr client remove of a (client, local) key that has no record in the
\* saved store fails with NotFound and changes no file; of a key that has a
\* record it succeeds and the saved store is the old one without that record:
\* the other records in their order, the server list as it was.  In both
\* cases no file of any client is written.
C14_ClientRemoveBookkeepingOnly ==
    [][ret'.op = "runClientRemove"
       => LET old == Load(fs).cfg
              new == Load(fs').cfg
              key == <<ret'.args[1], ret'.args[2]>>
          IN  /\ \A p \in DOMAIN fs \ {GlobalConfigPath} : fs'[p] = fs[p]
              /\ IF \E i \in 1..Len(old.SyncedClients.elems) :
                       SyncedKey(old.SyncedClients.elems[i]) = key
                 THEN /\ ret'.err = "nil"
                      /\ new.SyncedClients.elems =
                            SelectSeq(old.SyncedClients.elems,
                                      LAMBDA sc : SyncedKey(sc) # key)
                      /\ Len(new.SyncedClients.elems) =
                            Len(old.SyncedClients.elems) - 1
                      /\ new.Servers = old.Servers
                 ELSE /\ ret'.err = "NotFound"
                      /\ fs' = fs]_vars

\* C14 witness: gemini was removed from a sync list of two or more records of
\* a store that has servers, and the file mcpr wrote for gemini is still there.
C14_Witness ==
    /\ ret.op = "runClientRemove"
    /\ ret.args = <<"gemini", FALSE>>
    /\ ret.err = "nil"
    /\ Len(Load(fs).cfg.SyncedClients.elems) >= 1
    /\ Len(Load(fs).cfg.Servers.elems) >= 1
    /\ fs["~/gemini"].kind = "json"

\* C16 (as claimed): mcpr client remove --local of a registered client that
\* has no local support fails with UnsupportedOperation.
C16_LocalRemoveUnsupported ==
    [][(/\ ret'.op = "runClientRemove"
        /\ ret'.args[2]
        /\ GetClient(ret'.args[1]).err = "nil"
        /\ ~clientRegistry[ret'.args[1]].SupportsLocal)
       => ret'.err = "UnsupportedOperation"]_vars

\* C17 (as claimed): after a successful add or remove of a server, the file
\* of every synced-client record, unless the user has broken it, holds exactly
\* the servers of the store the record stands for; a removed server is in no
\* such file.
C17_SyncedFilesFollowStore ==
    (ret.op \in {"runAddStdio", "runAddHttp", "runRemove"} /\ ret.err = "nil")
    => \A i \in 1..Len(cfg.SyncedClients.elems) :
          fs[RecordPath(cfg.SyncedClients.elems[i])] \notin EditedContents
          => RecordUpdated(cfg, cfg.SyncedClients.elems[i])

\* C20 (as claimed): no command ends in a run-time panic, whatever the files
\* of the clients hold.
C20_NoOperationIsFatal ==
    ret.err # "panic" /\ (ret.resync.ran => ret.resync.err # "panic")

\* The record has an explicit list that names a server the store c lacks
NamesMissing(c, sc) ==
    /\ SliceLen(sc.Servers) > 0
    /\ \E k \in 1..Len(sc.Servers.elems) : GetServer(c, sc.Servers.elems[k]).err # "nil"

\* C22 (as claimed): resync-all fails a record where a single-client sync
\* with the record's names would fail: a record whose explicit list names a
\* server that is not in the store is not counted as synced and its client's
\* file is not written.
C22_ResyncResolvesAsSync ==
    [][(ret'.resync.ran /\ ret'.resync.err # "panic")
       => \A i \in 1..Len(cfg'.SyncedClients.elems) :
             NamesMissing(cfg', cfg'.SyncedClients.elems[i])
             => /\ ~ret'.resync.succeeded[i]
                /\ fs'[RecordPath(cfg'.SyncedClients.elems[i])] =
                      fs[RecordPath(cfg'.SyncedClients.elems[i])]]_vars

C29_ResyncLeavesStore ==
    [][/\ ret'.op = "resyncAll"
          => /\ fs'[GlobalConfigPath] = fs[GlobalConfigPath]
             /\ cfg' = Load(fs).cfg
             /\ ret'.resync.ran => ret'.resync.total = Len(cfg'.SyncedClients.elems)
       /\ (ret'.resync.ran /\ ret'.op \in {"runAddStdio", "runAddHttp", "runRemove"})
          => /\ Load(fs').cfg.SyncedClients = Load(fs).cfg.SyncedClients
             /\ cfg'.SyncedClients = Load(fs).cfg.SyncedClients]_vars

\* C29 witness: a resync-all over two records, one of which failed, has
\* returned the aggregate error and both records are in the saved store.
C29_Witness ==
    /\ ret.op = "resyncAll"
    /\ ret.err = "some clients failed to sync"
    /\ ret.resync.total = 2
    /\ \E i \in 1..2 : ~ret.resync.succeeded[i]
    /\ Len(Load(fs).cfg.SyncedClients.elems) = 2

-----------------------------------------------------------------------------
(* SpecRoundTrip: Config.Save followed by LoadFromPath, for the aggregates  *)
(* a caller of package config can hold                                       *)

\* A record as a caller of the package can build it: empty, not nil, maps
StdioDbEmptyMaps ==
    MCPServer("db", "stdio", "dbsrv", NilSlice, MkMap(<<>>), "", MkMap(<<>>))

\* `mcpr add stdio --name fs npx <arg>` with an argument that is not valid UTF-8
StdioFsInvalid ==
    MCPServer("fs", "stdio", "npx", MkSlice(<<InvalidUTF8>>), NilMap, "", NilMap)

RoundTripServers == ServerInputs \cup {StdioDbEmptyMaps, StdioFsInvalid}

\* Synced-client records: the list unset, empty, or explicit
RoundTripSynced ==
    {SyncedClient("cursor", local, servers) :
        local \in BOOLEAN, servers \in {NilSlice, MkSlice(<<>>), MkSlice(<<"fs">>)}}

\* The slices over S of at most n elements, no two with the same key, and the nil slice
SlicesOf(S, n, key) ==
    {NilSlice} \cup
    {MkSlice(s) : s \in {x \in SeqsUpTo(S, n) :
                            \A i, j \in 1..Len(x) : key[x[i]] = key[x[j]] => i = j}}

RoundTripInit ==
    /\ \E servers \in SlicesOf(RoundTripServers, MaxServers,
                               [s \in RoundTripServers |-> s.Name]),
          synced \in SlicesOf(RoundTripSynced, MaxSynced,
                              [sc \in RoundTripSynced |-> <<sc.Name, sc.Local>>]),
          path \in {"", GlobalConfigPath} :
             cfg = Config(servers, synced, path)
    /\ fs = AllMissing
    /\ ret = [op |-> "start", err |-> "nil"]
    /\ order = <<>>
    /\ goos = "linux"

\* cfg.Save()
DoSave ==
    /\ ret.op = "start"
    /\ \E w \in {Save(cfg, fs)} :
          /\ cfg' = w.cfg
          /\ fs' = w.fs
          /\ ret' = [op |-> "Save", err |-> w.err, saved |-> w.cfg]
    /\ UNCHANGED <<order, goos>>

\* config.LoadFromPath(cfg.Path())
DoLoadFromPath ==
    /\ ret.op = "Save"
    /\ ret.err = "nil"
    /\ \E l \in {LoadFromPath(fs, cfg.path)} :
          /\ cfg' = l.cfg
          /\ ret' = [op |-> "LoadFromPath", err |-> l.err, saved |-> ret.saved]
    /\ UNCHANGED <<fs, order, goos>>

RoundTripNext == DoSave \/ DoLoadFromPath

SpecRoundTrip == RoundTripInit /\ [][RoundTripNext]_vars

\* C10 (as claimed): Save followed by LoadFromPath of the same path yields a
\* structurally equal aggregate: the same servers in the same order, the same
\* synced-client records, the same field values, an empty and an absent
\* args/env/headers and an empty and an unset synced-client servers list each
\* read back as they were saved.
C10_RoundTripExact ==
    ret.op = "LoadFromPath" => (ret.err = "nil" /\ cfg = ret.saved)

\* An empty slice or map as it is after a round trip: absent
AbsentIfEmpty(s) ==
    IF "elems" \in DOMAIN s
    THEN (IF SliceLen(s) = 0 THEN NilSlice ELSE s)
    ELSE (IF MapLen(s) = 0 THEN NilMap ELSE s)

\* An aggregate with every empty args, env, headers, synced-client servers
\* list and synced-client list absent, and every string valid UTF-8
AsStored(c) ==
    LET strs(s) == IF s.null THEN s
                   ELSE MkSlice([i \in 1..Len(s.elems) |-> ToValidUTF8(s.elems[i])])
        strmap(m) == IF m.null THEN m
                     ELSE MkMap([k \in DOMAIN m.kv |-> ToValidUTF8(m.kv[k])])
        srv(s) == MCPServer(ToValidUTF8(s.Name), ToValidUTF8(s.Type),
                            ToValidUTF8(s.Command), AbsentIfEmpty(strs(s.Args)),
                            AbsentIfEmpty(strmap(s.Env)), ToValidUTF8(s.URL),
                            AbsentIfEmpty(strmap(s.Headers)))
        syn(sc) == SyncedClient(ToValidUTF8(sc.Name), sc.Local,
                                AbsentIfEmpty(strs(sc.Servers)))
    IN  Config(IF c.Servers.null THEN NilSlice
               ELSE MkSlice([i \in 1..Len(c.Servers.elems) |-> srv(c.Servers.elems[i])]),
               IF SliceLen(c.SyncedClients) = 0 THEN NilSlice
               ELSE MkSlice([i \in 1..Len(c.SyncedClients.elems) |->
                                syn(c.SyncedClients.elems[i])]),
               c.path)

\* C10 (amended): Save followed by LoadFromPath of the same path succeeds and
\* yields the same servers in the same order and the same synced-client
\* records with the same field values, except that an empty args, env,
\* headers, synced-client servers list or synced-client list is read back as
\* absent (an absent one stays absent; the server list itself keeps being
\* empty or absent), and a string that is not valid UTF-8 is read back with
\* U+FFFD in place of its invalid bytes.
C10_RoundTripUpToEmpty ==
    ret.op = "LoadFromPath" => (ret.err = "nil" /\ cfg = AsStored(ret.saved))

\* C10 witness: a store with a server whose args are empty, a server whose env
\* is set, and a synced-client record with an explicit list has been saved
\* and loaded back; what was loaded is not what was saved.
C10_Witness ==
    /\ ret.op = "LoadFromPath"
    /\ ret.err = "nil"
    /\ ret.saved.Servers.elems = <<StdioFsBare, StdioDb>>
    /\ ret.saved.SyncedClients.elems = <<SyncedClient("cursor", TRUE, MkSlice(<<"fs">>))>>
    /\ cfg # ret.saved
    /\ cfg.Servers.elems[2] = StdioDb

-----------------------------------------------------------------------------
(* SpecSync: Client.Sync of every registered client, global and local, on a *)
(* machine that starts without any client file                               *)

\* The servers handed to Client.Sync
SyncServers == <<StdioFs, HttpApi>>

SyncInit ==
    /\ cfg = Load(AllMissing).cfg
    /\ fs = AllMissing
    /\ ret = [op |-> "start", runs |-> 0]
    /\ order = <<>>
    /\ goos \in {"linux", "plan9"}

\* client.Sync(servers, local)
DoSync(clientName, local) ==
    LET r == Sync(clientRegistry[clientName], SyncServers, local, goos, fs)
    IN  /\ ret.runs < MaxRuns
        /\ fs' = r.fs
        /\ ret' = [op |-> "Sync", client |-> clientName, local |-> local,
                   path |-> r.path, err |-> r.err, runs |-> ret.runs + 1]
        /\ UNCHANGED <<cfg, order, goos>>

SyncNext == \E clientName \in DOMAIN clientRegistry, local \in BOOLEAN :
               DoSync(clientName, local)

SpecSync == SyncInit /\ [][SyncNext]_vars

\* The file at path has been written with the servers handed to Sync and no
\* other file has changed
WroteOnly(c, path) ==
    /\ fs'[path].kind \in {"json", "text"}
    /\ LET names == EntryNames(c, fs'[path])
       IN  {names[i] : i \in 1..Len(names)} =
              {<<SyncServers[i].Name, "]">> : i \in 1..Len(SyncServers)}
    /\ \A p \in DOMAIN fs \ {path} : fs'[p] = fs[p]

-----------------------------------------------------------------------------
(* SpecLoad: LoadFromPath on whatever the path holds, and Config.Save of    *)
(* what it returned                                                          *)

\* configFileName in the working directory
LocalConfigPath == "./mcpr.json"

LoadPaths == {GlobalConfigPath, LocalConfigPath}

\* What a config path can hold before mcpr reads it
StoredContents ==
    {Missing, Garbage, Unreadable,
     JsonValue("compact", JNull),
     JsonValue("compact", JArr(<<>>)),
     JsonObject("indent2", <<Member("servers", JStr("fs"))>>),
     JsonObject("indent2", <<>>),
     Save(Config(MkSlice(<<StdioFs, HttpApi>>),
                 MkSlice(<<SyncedClient("cursor", FALSE, NilSlice)>>),
                 GlobalConfigPath), AllMissing).fs[GlobalConfigPath]}

LoadInit ==
    /\ cfg = Config(NilSlice, NilSlice, "")
    /\ fs \in [LoadPaths -> StoredContents]
    /\ ret = [op |-> "start"]
    /\ order = <<>>
    /\ goos = "linux"

\* cfg, err := config.LoadFromPath(path): no Config comes with an error
DoLoad(path) ==
    LET r == LoadFromPath(fs, path)
    IN  /\ cfg' = IF r.err = "nil" THEN r.cfg ELSE cfg
        /\ ret' = [op |-> "LoadFromPath", path |-> path, err |-> r.err,
                   cfg |-> IF r.err = "nil" THEN <<r.cfg>> ELSE <<>>]
        /\ UNCHANGED <<fs, order, goos>>

\* cfg.AddServer(server); cfg.Save() on the Config the load returned
DoSaveLoaded(server) ==
    /\ ret.op = "LoadFromPath"
    /\ ret.err = "nil"
    /\ LET w == Save(AddServer(ret.cfg[1], server).cfg, fs)
       IN  /\ cfg' = w.cfg
           /\ fs' = w.fs
           /\ ret' = [op |-> "Save", path |-> ret.path, err |-> w.err,
                      was |-> fs[ret.path]]
    /\ UNCHANGED <<order, goos>>

LoadNext ==
    \/ \E path \in LoadPaths : DoLoad(path)
    \/ \E server \in {StdioDb} : DoSaveLoaded(server)

SpecLoad == LoadInit /\ [][LoadNext]_vars

\* Content json.Unmarshal into a Config rejects: bytes that are no JSON, a
\* top-level value that is neither an object nor null, a member of a wrong type
Malformed(file) ==
    \/ file.kind = "garbage"
    \/ file.kind = "json" /\ file.top \notin {"object", "null"}
    \/ /\ file.kind = "json"
       /\ file.top = "object"
       /\ \E i \in 1..Len(file.members) :
             /\ file.members[i].k \in {"servers", "synced_clients"}
             /\ file.members[i].v.t \notin {"arr", "null"}

\* C18: LoadFromPath of a path that does not exist returns no error and a
\* Config with no servers and no synced-client records that is bound to that
\* path, and a Save of that Config writes the document at that path and
\* nowhere else; of a path with malformed content it returns ParseError and
\* no Config; of a path that cannot be read for another reason it returns
\* IOError and no Config.  LoadFromPath changes no file.
C18_LoadMissingMalformedUnreadable ==
    /\ [][ret'.op = "LoadFromPath"
          => LET file == fs[ret'.path]
             IN  /\ fs' = fs
                 /\ file = Missing =>
                       /\ ret'.err = "nil"
                       /\ Len(ret'.cfg) = 1
                       /\ SliceLen(ret'.cfg[1].Servers) = 0
                       /\ SliceLen(ret'.cfg[1].SyncedClients) = 0
                       /\ ret'.cfg[1].path = ret'.path
                 /\ Malformed(file) => ret'.err = "ParseError" /\ ret'.cfg = <<>>
                 /\ file = Unreadable => ret'.err = "IOError" /\ ret'.cfg = <<>>]_vars
    /\ [][(ret.op = "LoadFromPath" /\ ret'.op = "Save" /\ fs[ret.path] = Missing)
          => /\ ret'.err = "nil"
             /\ fs'[ret.path].kind = "json"
             /\ LoadFromPath(fs', ret.path).cfg.Servers.elems = <<StdioDb>>
             /\ \A p \in DOMAIN fs \ {ret.path} : fs'[p] = fs[p]]_vars

\* C18 witness: the Config loaded from the missing mcpr.json of the working
\* directory was saved there, next to a global document that cannot be read.
C18_Witness ==
    /\ ret.op = "Save"
    /\ ret.path = LocalConfigPath
    /\ ret.was = Missing
    /\ fs[LocalConfigPath].kind = "json"
    /\ fs[GlobalConfigPath] = Unreadable

-----------------------------------------------------------------------------
(* SpecFind: the search for mcpr.json from the working directory up to the  *)
(* root, one turn of the loop of findConfigInParents at a time.  A directory *)
(* is the sequence of the names on its path, the root the empty sequence.    *)

\* The depth of the deepest directory of the model
MaxDepth == 3

\* const configFileName = "mcpr.json"
configFileName == "mcpr.json"

\* A slip: the parent of every directory is taken to be the root
filepathDirRoot(dir) == <<>>

\* filepath.Dir(dir): the parent, and the root for the root
filepathDir(dir) == IF dir = <<>> THEN dir ELSE SubSeq(dir, 1, Len(dir) - 1)

\* filepath.Join(dir, name)
filepathJoin(dir, name) == Append(dir, name)

\* _, err := os.Stat(path)
osStat(files, path) == IF files[path] = Missing THEN "NotExist" ELSE "nil"

\* The directory at depth d of the one branch the model has
Level(d) == [i \in 1..d |-> "level" \o ToString(i)]

Dirs == {Level(d) : d \in 0..MaxDepth}

\* What a directory can hold under the name mcpr.json
MarkerContents == {Missing, Unreadable, JsonObject("compact", <<>>)}

FindInit ==
    /\ cfg = Config(NilSlice, NilSlice, "")
    /\ fs \in [{filepathJoin(dir, configFileName) : dir \in Dirs} -> MarkerContents]
    /\ \E cwd \in Dirs, getwd \in {"nil", "error"} :
          ret = [op |-> "findConfigInParents", pc |-> "Getwd", cwd |-> cwd,
                 getwd |-> getwd, dir |-> <<>>, path |-> <<>>, found |-> FALSE]
    /\ order = <<>>
    /\ goos = "linux"

\* dir, err := os.Getwd(); if err != nil { return "", false }
Getwd ==
    /\ ret.pc = "Getwd"
    /\ ret' = IF ret.getwd # "nil" THEN [ret EXCEPT !.pc = "return"]
              ELSE [ret EXCEPT !.pc = "for", !.dir = ret.cwd]
    /\ UNCHANGED <<cfg, fs, order, goos>>

\* One turn of the loop: the marker of dir is found, or dir is the root, or
\* the search moves to the parent
FindStep ==
    /\ ret.pc = "for"
    /\ LET configPath == filepathJoin(ret.dir, configFileName)
           parent == filepathDir(ret.dir)
       IN  ret' = IF osStat(fs, configPath) = "nil"
                  THEN [ret EXCEPT !.pc = "return", !.path = configPath, !.found = TRUE]
                  ELSE IF parent = ret.dir THEN [ret EXCEPT !.pc = "return"]
                  ELSE [ret EXCEPT !.dir = parent]
    /\ UNCHANGED <<cfg, fs, order, goos>>

\* func GetConfigPath() (string, error): the path found, else the global path
GetConfigPath ==
    /\ ret.pc = "return"
    /\ ret' = [ret EXCEPT !.op = "GetConfigPath", !.pc = "done",
                          !.path = IF ret.found THEN ret.path
                                   ELSE <<GlobalConfigPath>>]
    /\ UNCHANGED <<cfg, fs, order, goos>>

FindNext == Getwd \/ FindStep \/ GetConfigPath

SpecFind == FindInit /\ [][FindNext]_vars

\* The program does not stop between two statements: a call that can take a
\* step takes it
SpecFindFair == SpecFind /\ WF_vars(FindNext)

\* The depths, from the root, of the working directory and of its ancestors
\* that hold a marker file
MarkedDepths ==
    {d \in 0..Len(ret.cwd) :
        fs[filepathJoin(SubSeq(ret.cwd, 1, d), configFileName)] # Missing}

\* C19: GetConfigPath always returns; when the working directory is known it
\* returns the mcpr.json of the deepest directory, among the working directory
\* and its ancestors up to the root, that holds one, and it returns the global
\* path exactly when none of them holds one.
C19_NearestMarkerOrGlobal ==
    /\ <>(ret.pc = "done")
    /\ []((ret.pc = "done" /\ ret.getwd = "nil")
          => IF MarkedDepths = {}
             THEN ~ret.found /\ ret.path = <<GlobalConfigPath>>
             ELSE /\ ret.found
                  /\ \E d \in MarkedDepths :
                        /\ \A e \in MarkedDepths : e <= d
                        /\ ret.path = filepathJoin(SubSeq(ret.cwd, 1, d),
                                                   configFileName))

\* C19 witness: from the deepest directory, which holds no marker, the search
\* returned the marker of level1 although the root holds one too.
C19_Witness ==
    /\ ret.pc = "done"
    /\ ret.cwd = Level(MaxDepth)
    /\ ret.path = filepathJoin(Level(1), configFileName)
    /\ fs[filepathJoin(<<>>, configFileName)] # Missing
    /\ fs[filepathJoin(Level(MaxDepth), configFileName)] = Missing

-----------------------------------------------------------------------------
(* SpecName: mcpr add stdio and mcpr add http with names given or derived,  *)
(* from a machine on which mcpr has never run                                *)

\* The length of the longest argument after its scheme
MaxArgLen == 2

\* The commands of mcpr add stdio: paths of letters and separators
CommandInputs == SeqsUpTo({"a", "/"}, MaxArgLen)

\* The URLs of mcpr add http: with a scheme or without, a host, a port
\* separator or a path separator in any place
UrlInputs ==
    {scheme \o rest :
        scheme \in {<<>>, <<"h", "t", "t", "p", ":", "/", "/">>,
                    <<"h", "t", "t", "p", "s", ":", "/", "/">>},
        rest \in SeqsUpTo({"a", "/", ":"}, MaxArgLen)}

\* The values of --name: not given, or given
NameFlags == {"", "x"}

NameInit ==
    /\ cfg = Load(AllMissing).cfg
    /\ fs = AllMissing
    /\ ret = [op |-> "start", args |-> <<>>, err |-> "nil"]
    /\ order = <<>>
    /\ goos = "linux"

\* A command has run and returned r; its second result is not kept
Added(op, args, r) ==
    /\ cfg' = r.cfg
    /\ fs' = r.fs
    /\ ret' = [op |-> op, args |-> args, err |-> r.err]
    /\ UNCHANGED <<order, goos>>

\* mcpr add stdio [--name stdioName] command
AddStdio(stdioName, command) ==
    /\ SliceLen(Load(fs).cfg.Servers) < MaxServers - 1
    /\ Added("runAddStdio", <<stdioName, Str(command)>>,
             runAddStdio(stdioName, command, <<>>, <<>>, goos, fs))

\* mcpr add http [--name httpName] url
AddHttp(httpName, url) ==
    /\ SliceLen(Load(fs).cfg.Servers) < MaxServers - 1
    /\ Added("runAddHttp", <<httpName, Str(url)>>,
             runAddHttp(httpName, url, <<>>, goos, fs))

NameNext ==
    \/ \E stdioName \in NameFlags, command \in CommandInputs :
          AddStdio(stdioName, command)
    \/ \E httpName \in NameFlags, url \in UrlInputs : AddHttp(httpName, url)

SpecName == NameInit /\ [][NameNext]_vars

\* C21 (as claimed): no record of the saved store has the empty string as
\* its name.
C21_NamesNonEmpty ==
    \A i \in 1..Len(Load(fs).cfg.Servers.elems) :
        Load(fs).cfg.Servers.elems[i].Name # ""

-----------------------------------------------------------------------------
(* SpecResync: resyncAll on a Config whose synced-client records were made  *)
(* before its servers, for clients whose files keep the order of the servers *)

\* The sync lists of the Configs: a record with servers unset next to a
\* record with an explicit list
ResyncLists ==
    {<<SyncedClient("codex", FALSE, NilSlice),
       SyncedClient("continue", FALSE, MkSlice(<<"api", "fs">>))>>,
     <<SyncedClient("continue", FALSE, NilSlice),
       SyncedClient("codex", FALSE, MkSlice(<<"db", "fs">>))>>,
     <<SyncedClient("cursor", TRUE, NilSlice),
       SyncedClient("gemini", FALSE, MkSlice(<<"api">>))>>}

ResyncInit ==
    /\ \E syncedClients \in ResyncLists :
          cfg = Config(MkSlice(<<>>), MkSlice(syncedClients), GlobalConfigPath)
    /\ fs = AllMissing
    /\ ret = [op |-> "start"]
    /\ order = <<>>
    /\ goos = "linux"

\* resyncAll(cfg) has returned r
BatchDone(r) ==
    /\ fs' = r.fs
    /\ ret' = [op |-> "resyncAll", err |-> r.err, errors |-> r.errors,
               succeeded |-> r.succeeded]
    /\ UNCHANGED <<cfg, order, goos>>

DoResyncAll == BatchDone(resyncAll(cfg, goos, fs))

ResyncNext ==
    \/ \E server \in {StdioFs, HttpApi, StdioDb} : DoAddServer(server)
    \/ \E name \in NameInputs : DoRemoveServer(name)
    \/ DoResyncAll

SpecResync == ResyncInit /\ [][ResyncNext]_vars

\* The names of the entries of a record's file, in the order of the file
FileNames(sc) ==
    LET names == EntryNames(clientRegistry[sc.Name], fs[RecordPath(sc)])
    IN  [i \in 1..Len(names) |-> names[i][1]]

\* The file keeps the servers in the order the adapter was given them
KeepsOrder(sc) == clientRegistry[sc.Name].SyncFunc \in {"syncToCodex", "syncToContinue"}

\* C27: when resync-all has synced a record whose servers field is unset, the
\* client's file holds all the servers of the store as it is at that time;
\* when it has synced a record with an explicit list, the file holds the
\* servers the list names, those the store has, and no server added to the
\* store that the list does not name.  Where the file keeps an order (Codex
\* sections, the Continue array) it is the order of the store for an unset
\* record and the order of the list for an explicit one.
C27_UnsetMeansAllAtResync ==
    ret.op = "resyncAll"
    => \A i \in 1..Len(ret.succeeded) :
          ret.succeeded[i]
          => LET sc == cfg.SyncedClients.elems[i]
                 want == IF SliceLen(sc.Servers) = 0 THEN ServerNames(cfg.Servers)
                         ELSE SelectSeq(sc.Servers.elems,
                                        LAMBDA n : GetServer(cfg, n).err = "nil")
             IN  /\ {FileNames(sc)[k] : k \in 1..Len(FileNames(sc))} =
                       {want[k] : k \in 1..Len(want)}
                 /\ Len(FileNames(sc)) = Len(want)
                 /\ KeepsOrder(sc) => FileNames(sc) = want

\* C27 witness: with the servers fs, db and api added in that order after the
\* records were made, resync-all has written all three to Codex's file and
\* api, fs, in the order of the list, to Continue's.
C27_Witness ==
    /\ ret.op = "resyncAll"
    /\ ret.succeeded = <<TRUE, TRUE>>
    /\ ServerNames(cfg.Servers) = <<"fs", "db", "api">>
    /\ cfg.SyncedClients.elems[2] =
          SyncedClient("continue", FALSE, MkSlice(<<"api", "fs">>))
    /\ FileNames(cfg.SyncedClients.elems[1]) = <<"fs", "db", "api">>
    /\ FileNames(cfg.SyncedClients.elems[2]) = <<"api", "fs">>

-----------------------------------------------------------------------------
(* SpecRace: two invocations of mcpr on the same config file.  An invocation *)
(* reads the file once, changes its own Config in memory, writes the file    *)
(* once and then re-syncs; between these steps the other invocation runs.    *)
(* A read and a write of the file are each taken as one step.                *)

\* The documents the config file holds before the two invocations
RaceStores ==
    {Missing,
     Save(Config(MkSlice(<<StdioFs>>), NilSlice, GlobalConfigPath),
          AllMissing).fs[GlobalConfigPath],
     Save(Config(MkSlice(<<StdioFs, HttpApiBare>>),
                 MkSlice(<<SyncedClient("cursor", FALSE, NilSlice)>>),
                 GlobalConfigPath), AllMissing).fs[GlobalConfigPath]}

\* mcpr add (stdio or http) of a server, mcpr remove of a server's name
RaceCommands ==
    {[op |-> "add", server |-> StdioDb], [op |-> "add", server |-> HttpApi],
     [op |-> "add", server |-> StdioFs], [op |-> "remove", server |-> StdioFs]}

\* cfg.AddServer(server) of runAddStdio and runAddHttp, cfg.RemoveServer(name)
\* of runRemove
Mutate(c, cmd) ==
    IF cmd.op = "add" THEN AddServer(c, cmd.server)
    ELSE RemoveServer(c, cmd.server.Name)

RaceInit ==
    /\ \E content \in RaceStores, cmd1 \in RaceCommands, cmd2 \in RaceCommands :
          /\ fs = [AllMissing EXCEPT ![GlobalConfigPath] = content]
          /\ ret = [op |-> "race", initial |-> content,
                    inv |-> [p \in 1..2 |->
                               [pc |-> "load", cmd |-> IF p = 1 THEN cmd1 ELSE cmd2,
                                cfg |-> <<>>, err |-> "nil"]]]
    /\ cfg = Load(fs).cfg
    /\ order = <<>>
    /\ goos = "linux"

\* Invocation p has gone on to pc holding the Config held, or has returned err
Moved(p, pc, held, err) ==
    ret' = [ret EXCEPT !.inv[p] = [pc |-> IF err = "nil" THEN pc ELSE "done",
                                  cmd |-> ret.inv[p].cmd, cfg |-> held, err |-> err]]

\* cfg, err := loadConfig(); if err := cfg.AddServer(server); err != nil
\* { return err }: the file is read, the Config changed in memory
RaceLoad(p) ==
    /\ ret.inv[p].pc = "load"
    /\ LET l == Load(fs)
           a == Mutate(l.cfg, ret.inv[p].cmd)
       IN  IF l.err # "nil" THEN Moved(p, "done", <<>>, l.err)
           ELSE Moved(p, "save", <<a.cfg>>, a.err)
    /\ order' = Append(order, <<"load", p>>)
    /\ UNCHANGED <<cfg, fs, goos>>

\* A slip: the file is read again and the change applied to what it holds now
RaceSaveReload(p) ==
    /\ ret.inv[p].pc = "save"
    /\ LET a == Mutate(Load(fs).cfg, ret.inv[p].cmd)
           w == Save(a.cfg, fs)
       IN  /\ fs' = IF a.err = "nil" THEN w.fs ELSE fs
           /\ cfg' = IF a.err = "nil" THEN w.cfg ELSE cfg
           /\ Moved(p, "resync", <<w.cfg>>, a.err)
    /\ order' = Append(order, <<"save", p>>)
    /\ UNCHANGED goos

\* if err := cfg.Save(); err != nil { return ... }: the Config held is
\* written over whatever the file holds
RaceSave(p) ==
    /\ ret.inv[p].pc = "save"
    /\ LET w == Save(ret.inv[p].cfg[1], fs)
       IN  /\ fs' = w.fs
           /\ cfg' = IF w.err = "nil" THEN w.cfg ELSE cfg
           /\ Moved(p, "resync", <<w.cfg>>, w.err)
    /\ order' = Append(order, <<"save", p>>)
    /\ UNCHANGED goos

\* resyncAll(cfg); return nil
RaceResync(p) ==
    /\ ret.inv[p].pc = "resync"
    /\ LET r == resyncAll(ret.inv[p].cfg[1], goos, fs)
       IN  /\ fs' = r.fs
           /\ Moved(p, "done", ret.inv[p].cfg, IF r.err = "panic" THEN "panic" ELSE "nil")
    /\ UNCHANGED <<cfg, order, goos>>

RaceNext == \E p \in 1..2 : RaceLoad(p) \/ RaceSave(p) \/ RaceResync(p)

SpecRace == RaceInit /\ [][RaceNext]_vars

\* Both invocations have read the file before either wrote it, and both
\* have written it
BothLoadedFirst ==
    /\ Len(order) = 4
    /\ order[1][1] = "load"
    /\ order[2][1] = "load"

\* The names of the servers of the config file
StoredNames == ServerNames(Load(fs).cfg.Servers)

\* C23: when both invocations have read the config file before either wrote
\* it and both have written it, the file holds exactly the document the
\* invocation that wrote last would have written had it run alone; the change
\* of the other invocation, where it is another change, is not in the file (a
\* server it added is absent, a server it removed is present); and neither
\* invocation has returned an error.
C23_LastWriterWins ==
    BothLoadedFirst
    => LET last == ret.inv[order[4][2]].cmd
           other == ret.inv[order[3][2]].cmd
           before == [AllMissing EXCEPT ![GlobalConfigPath] = ret.initial]
       IN  /\ fs[GlobalConfigPath] =
                 Save(Mutate(Load(before).cfg, last).cfg, before).fs[GlobalConfigPath]
           /\ other # last
              => IF other.op = "add"
                 THEN \A i \in 1..Len(StoredNames) : StoredNames[i] # other.server.Name
                 ELSE \E i \in 1..Len(StoredNames) : StoredNames[i] = other.server.Name
           /\ ret.inv[1].err = "nil"
           /\ ret.inv[2].err = "nil"

\* C23 witness: with fs in the store, `add` of db and `add` of api both read
\* the file, then db's invocation wrote, then api's; both have returned, and
\* the file holds fs and api.
C23_Witness ==
    /\ BothLoadedFirst
    /\ ret.inv[1].pc = "done"
    /\ ret.inv[2].pc = "done"
    /\ ret.inv[order[3][2]].cmd = [op |-> "add", server |-> StdioDb]
    /\ ret.inv[order[4][2]].cmd = [op |-> "add", server |-> HttpApi]
    /\ StoredNames = <<"fs", "api">>

-----------------------------------------------------------------------------
(* SpecList: mcpr client sync <client> --servers ... with every short list   *)
(* of names, on a store that holds the servers fs and api                    *)

\* One client of each kind of file: an object keyed by name, Continue's
\* array, Codex's sections
ListClients == {"cursor", "continue", "codex"}

\* The values of --servers: names of the store and a name it does not hold,
\* in any order, a name more than once
ExplicitLists == SeqsUpTo({"fs", "api", "db"}, 2) \ {<<>>}

ListInit ==
    /\ fs = Save(Config(MkSlice(<<StdioFs, HttpApi>>), NilSlice, GlobalConfigPath),
                 AllMissing).fs
    /\ cfg = Load(fs).cfg
    /\ \E clientName \in ListClients :
          ret = [op |-> "start", args |-> <<clientName>>, err |-> "nil",
                 resync |-> [ran |-> FALSE]]
    /\ order = <<>>
    /\ goos = "linux"

\* The client of the machine is synced again and again, each time with
\* another list
ListNext ==
    \E names \in ExplicitLists : CmdClientSync(ret.args[1], names, FALSE)

SpecList == ListInit /\ [][ListNext]_vars

\* The names of the entries or sections of the file of the client just synced
SyncedFileNames ==
    LET c == clientRegistry[ret.args[1]]
    IN  EntryNames(c, fs[GlobalPath(c, goos).path])

\* C30 (as claimed): after a successful `mcpr client sync <client> --servers
\* ...` the client's file has no two entries or sections with the same server
\* name.
C30_OneEntryPerName ==
    (ret.op = "runClientSync" /\ ret.err = "nil")
    => \A i, j \in 1..Len(SyncedFileNames) :
          i # j => SyncedFileNames[i] # SyncedFileNames[j]

=============================================================================
